---- MODULE Spec2Model ----
(***************************************************************************)
(* Model of the evaluation core of the static-code-analysis pipeline:      *)
(*   src/src/agent/evaluator.py      Evaluator (Detective, Judge, Refiner) *)
(*   src/src/languages/*.py          language profiles and scoring         *)
(*                                                                         *)
(* Texts are sequences of tokens.  A token is one backtick, the word       *)
(* "json", one whitespace character, one complete JSON document, or a      *)
(* piece of text that is not JSON.                                         *)
(***************************************************************************)
EXTENDS Integers, Sequences, FiniteSets, TLC

VARIABLES
    mode,            \* the specification that drives the state: "eval", "score", "filter", ...
    pc,              \* position of Evaluator.evaluate in its code
    file,            \* the file behind file_path: kind, suffix, content
    ragEnabled,      \* Evaluator.rag_enabled (self._rag is not None)
    profile,         \* name of the detected LanguageProfile, None before detection
    tools,           \* the tool report returned by profile.run_tools
    queries,         \* topics still to be sent to the retriever
    ragChunks,       \* rag_chunks
    potentialIssues, \* potential_issues
    judgeResponse,   \* judge_response, <<>> before the Judge answered
    refinerResponse, \* refiner_response, <<>> before the Refiner answered
    firstError,      \* `error` of the first Judge parse, <<>> before it
    verifiedData,    \* verified_data
    parseError,      \* parse_error
    result,          \* the record evaluate returned
    exception,       \* the exception that escaped evaluate, None if none
    log,             \* history: the external calls made, with their outcome
    scoreIn,         \* inputs of calculate_score (scoring specification)
    scoreOut,        \* the value calculate_score returned
    lintFiltered,    \* the view profile.filter_lint returned, Unset before
    cleanIn,         \* the text _clean_json_response is applied to
    cleanOnce,       \* its result
    cleanTwice,      \* the result of cleaning cleanOnce again
    detectiveResponse, \* detective_response, <<>> before the Detective answered
    retrieved,       \* history: the answers of RuleRetriever.retrieve, in order
    maxRetries,      \* LLMClient.max_retries
    attempt,         \* the loop variable of LLMClient.chat
    backoff,         \* `wait` of the last failed attempt, 0 before
    chatReturn,      \* the content LLMClient.chat returned, <<>> before
    workers,         \* args.workers, the size of the thread pool
    futures,         \* future_map: per file, the state of its evaluation
    results,         \* the list main collects the records in
    reported         \* the records after results.sort, <<>> before

vars == <<mode, pc, file, ragEnabled, profile, tools, queries, ragChunks,
          potentialIssues, judgeResponse, refinerResponse, firstError, verifiedData,
          parseError, result, exception, log, scoreIn, scoreOut, lintFiltered,
          detectiveResponse, retrieved, maxRetries, attempt, backoff, chatReturn,
          workers, futures, results, reported, cleanIn, cleanOnce, cleanTwice>>

\* the state of LLMClient.chat and the state of the batch run of main
chatVars == <<maxRetries, attempt, backoff, chatReturn>>

batchVars == <<workers, futures, results, reported>>

\* the state of the repeated cleaning of one text
cleanVars == <<cleanIn, cleanOnce, cleanTwice>>

-----------------------------------------------------------------------------
(* Bounds of the model *)

\* longest list of verified violations given to calculate_score
MaxViolations == 7
\* longest list of complexity blocks in a tool report
MaxBlocks == 2

-----------------------------------------------------------------------------
(* Python values *)

\* Python's None / JSON null / an absent dictionary key read with .get()
None == "<None>"

\* A local variable that has not been assigned yet
Unset == [unset |-> TRUE]

\* Python int and str values where one field holds either (the score)
PyInt(n) == [int |-> n]

PyStr(s) == [str |-> s]

\* SCORE_NOT_AVAILABLE = "N/A"
SCORE_NOT_AVAILABLE == PyStr("N/A")

\* A Python list, and None where a list is expected (JSON null under a key
\* whose value should be an array)
PyList(items) == [type |-> "list", items |-> items]

PyNone == [type |-> "NoneType", items |-> <<>>]

\* The empty string and string concatenation (f-strings): a string is a
\* sequence of fragments.
EmptyStr == <<>>

-----------------------------------------------------------------------------
(* Text: cleaning and JSON parsing *)

\* one backtick character
BT == "BACKTICK"
JSONWORD == "json"
WS == " "

RECURSIVE ReSubFences(_)
\* re.sub of the fence pattern (three backticks, then optionally the word
\* json) by "": every non-overlapping match, scanned from the left, is removed.
ReSubFences(s) ==
    IF Len(s) = 0 THEN <<>>
    ELSE IF Len(s) >= 3 /\ s[1] = BT /\ s[2] = BT /\ s[3] = BT
         THEN IF Len(s) >= 4 /\ s[4] = JSONWORD
              THEN ReSubFences(SubSeq(s, 5, Len(s)))
              ELSE ReSubFences(SubSeq(s, 4, Len(s)))
         ELSE <<s[1]>> \o ReSubFences(Tail(s))

RECURSIVE LStrip(_, _)
LStrip(s, c) ==
    IF Len(s) > 0 /\ s[1] = c THEN LStrip(Tail(s), c) ELSE s

RECURSIVE RStrip(_, _)
RStrip(s, c) ==
    IF Len(s) > 0 /\ s[Len(s)] = c THEN RStrip(SubSeq(s, 1, Len(s) - 1), c) ELSE s

\* str.strip()
Strip(s) == RStrip(LStrip(s, WS), WS)

\* Evaluator._clean_json_response
CleanJsonResponse(raw) == RStrip(Strip(ReSubFences(raw)), BT)

-----------------------------------------------------------------------------
(* JSON documents the model may return *)

\* A verified violation as the Judge writes it; only `severity` is read by
\* the pipeline.  severity = None stands for a missing or null severity.
Violation(line, sev) == [line |-> line, severity |-> sev]

\* The JSON documents, by token.  `keys` are the keys present in an object.
JsonDocs ==
    {"{vv:[Critical],sum}", "{vv:[major,Minor,Info,null],sum}", "{vv:[Critical]}",
     "{sum}", "{}", "{vv:null,sum}", "[issue]", "[]", "\"text\"", "42", "null"}

JsonType(tok) ==
    CASE tok \in {"[issue]", "[]"} -> "list"
      [] tok = "\"text\"" -> "string"
      [] tok = "42" -> "number"
      [] tok = "null" -> "null"
      [] OTHER -> "object"

JsonKeys(tok) ==
    CASE tok \in {"{vv:[Critical],sum}", "{vv:[major,Minor,Info,null],sum}", "{vv:null,sum}"}
            -> {"verified_violations", "analysis_summary"}
      [] tok = "{vv:[Critical]}" -> {"verified_violations"}
      [] tok = "{sum}" -> {"analysis_summary"}
      [] OTHER -> {}

\* the value under "verified_violations"
JsonVV(tok) ==
    CASE tok \in {"{vv:[Critical],sum}", "{vv:[Critical]}"} -> PyList(<<Violation(3, "Critical")>>)
      [] tok = "{vv:[major,Minor,Info,null],sum}"
            -> PyList(<<Violation(1, " major "), Violation(2, "Minor"),
                        Violation(4, "Info"), Violation(5, None)>>)
      [] OTHER -> PyNone

\* the value under "analysis_summary"
JsonSummary(tok) ==
    CASE tok = "{vv:[Critical],sum}" -> <<"hardcoded password">>
      [] tok = "{vv:[major,Minor,Info,null],sum}" -> <<"several issues">>
      [] tok = "{sum}" -> <<"clean">>
      [] tok = "{vv:null,sum}" -> <<"nothing to report">>
      [] OTHER -> EmptyStr

\* the elements of a JSON array
JsonItems(tok) ==
    IF tok = "[issue]" THEN <<[line |-> 3, type |-> "Security"]>> ELSE <<>>

\* json.loads: whitespace around the document is accepted; anything else
\* than exactly one document raises JSONDecodeError, whose text is the error.
JsonLoads(text) ==
    LET t == Strip(text) IN
    IF Len(t) = 0 \/ t[1] \notin JsonDocs
    THEN [ok |-> FALSE, doc |-> None, error |-> <<"Expecting value">>]
    ELSE IF Len(t) > 1
         THEN [ok |-> FALSE, doc |-> None, error |-> <<"Extra data">>]
         ELSE [ok |-> TRUE, doc |-> t[1], error |-> EmptyStr]

\* dict.get(key, default) on a parsed JSON object
GetVV(tok) == IF "verified_violations" \in JsonKeys(tok) THEN JsonVV(tok) ELSE PyList(<<>>)

GetSummary(tok) == IF "analysis_summary" \in JsonKeys(tok) THEN JsonSummary(tok) ELSE EmptyStr

\* ParseJsonList that wraps a document that is not a list into a list
ParseJsonList_WrapsDocument(raw) ==
    LET r == JsonLoads(CleanJsonResponse(raw)) IN
    IF ~r.ok THEN <<>>
    ELSE IF JsonType(r.doc) = "list" THEN JsonItems(r.doc)
         ELSE <<[line |-> 0, type |-> r.doc]>>

\* Evaluator._parse_json_list
ParseJsonList(raw) ==
    LET r == JsonLoads(CleanJsonResponse(raw)) IN
    IF r.ok /\ JsonType(r.doc) = "list" THEN JsonItems(r.doc) ELSE <<>>

\* TryParseJudgeJson that subscripts the keys instead of defaulting them: a
\* missing key is a parse error
TryParseJudgeJson_RequiresKeys(cleaned) ==
    LET r == JsonLoads(cleaned) IN
    IF ~r.ok
    THEN [outcome |-> "error", data |-> None, error |-> r.error]
    ELSE IF JsonType(r.doc) # "object"
         THEN [outcome |-> "raise", data |-> None, error |-> <<"AttributeError">>]
         ELSE IF JsonKeys(r.doc) # {"verified_violations", "analysis_summary"}
              THEN [outcome |-> "error", data |-> None, error |-> <<"KeyError">>]
              ELSE [outcome |-> "ok",
                    data |-> [verified_violations |-> JsonVV(r.doc),
                              analysis_summary |-> JsonSummary(r.doc)],
                    error |-> None]

\* Evaluator._try_parse_judge_json.  outcome "ok": (data, None); "error":
\* (None, message); "raise": data.get on a value that is not a dict raises
\* AttributeError, which the except clause does not name.
TryParseJudgeJson(cleaned) ==
    LET r == JsonLoads(cleaned) IN
    IF ~r.ok
    THEN [outcome |-> "error", data |-> None, error |-> r.error]
    ELSE IF JsonType(r.doc) # "object"
         THEN [outcome |-> "raise", data |-> None, error |-> <<"AttributeError">>]
         ELSE [outcome |-> "ok",
               data |-> [verified_violations |-> GetVV(r.doc),
                         analysis_summary |-> GetSummary(r.doc)],
               error |-> None]

-----------------------------------------------------------------------------
(* Scoring: PythonProfile.calculate_score, CSharpProfile.calculate_score *)

PENALTY_CRITICAL == 15
PENALTY_MAJOR == 7
PENALTY_MINOR == 2
PENALTY_COMPLEXITY == 5
COMPLEXITY_THRESHOLD == 15

\* NormSeverity with lower() in place of capitalize()
NormSeverity_Lower(raw) ==
    CASE raw = None -> ""
      [] raw = " major " -> "major"
      [] raw = "Critical" -> "critical"
      [] raw = "Minor" -> "minor"
      [] raw = "Info" -> "info"
      [] OTHER -> raw

\* (v.get("severity") or "").strip().capitalize() on the severities of the model
NormSeverity(raw) ==
    CASE raw = None -> ""
      [] raw = " major " -> "Major"
      [] raw = "critical" -> "Critical"
      [] OTHER -> raw

Max(a, b) == IF a >= b THEN a ELSE b

Min(a, b) == IF a <= b THEN a ELSE b

RECURSIVE SeverityPenalties(_)
\* the sum the loop over verified_violations subtracts
SeverityPenalties(vs) ==
    IF Len(vs) = 0 THEN 0
    ELSE LET sev == NormSeverity(vs[1].severity) IN
         (CASE sev = "Critical" -> PENALTY_CRITICAL
            [] sev = "Major" -> PENALTY_MAJOR
            [] sev = "Minor" -> PENALTY_MINOR
            [] OTHER -> 0)
         + SeverityPenalties(Tail(vs))

\* ComplexityPenalty with `>=` in place of `>`: a block at the threshold pays
ComplexityPenalty_AtThreshold(blocks) ==
    IF \E i \in 1..Len(blocks) : blocks[i].complexity >= COMPLEXITY_THRESHOLD
    THEN PENALTY_COMPLEXITY ELSE 0

\* ComplexityPenalty without the break: every block above the threshold pays
ComplexityPenalty_PerBlock(blocks) ==
    PENALTY_COMPLEXITY
      * Cardinality({i \in 1..Len(blocks) : blocks[i].complexity > COMPLEXITY_THRESHOLD})

\* the loop over the complexity blocks: one penalty at the first block above
\* the threshold, then break
ComplexityPenalty(blocks) ==
    IF \E i \in 1..Len(blocks) : blocks[i].complexity > COMPLEXITY_THRESHOLD
    THEN PENALTY_COMPLEXITY ELSE 0

\* the key under which each profile looks for complexity blocks
ComplexityKey(lang) == IF lang = "Python" THEN "radon" ELSE "complexity"

\* tools.get(key, {}).get("blocks", [])
BlocksOf(lang, report) ==
    IF ComplexityKey(lang) \in DOMAIN report THEN report[ComplexityKey(lang)].blocks ELSE <<>>

\* Clamp with abs() in place of the lower bound: min(100, abs(score))
Clamp_Abs(score) == Min(100, IF score < 0 THEN 0 - score ELSE score)

\* Clamp without the lower bound: min(100, score)
Clamp_NoFloor(score) == Min(100, score)

\* max(0, min(100, score))
Clamp(score) == Max(0, Min(100, score))

\* calculate_score of the profile named lang
CalculateScore(lang, verified_violations, report) ==
    Clamp(100 - SeverityPenalties(verified_violations)
              - ComplexityPenalty(BlocksOf(lang, report)))

-----------------------------------------------------------------------------
(* Language registry and guideline topics *)

\* str.lower() on the suffixes of the model
Lower(suffix) == IF suffix = ".PY" THEN ".py" ELSE suffix

\* detect_profile: the profile name for a path's suffix, None if unsupported
DetectProfile(suffix) ==
    CASE Lower(suffix) = ".py" -> "Python"
      [] Lower(suffix) = ".cs" -> "C#"
      [] OTHER -> None

\* _IMPORT_TOPIC_MAP of python_lang.py, in insertion order
PY_IMPORT_TOPIC_MAP ==
    << <<"sqlalchemy", "database rules">>, <<"sqlite3", "database rules">>,
       <<"psycopg", "database rules">>, <<"pymongo", "database rules">>,
       <<"subprocess", "security subprocess rules">>,
       <<"os.system", "security subprocess rules">>,
       <<"eval", "security eval rules">>, <<"exec", "security eval rules">>,
       <<"print", "logging rules">>, <<"logging", "logging rules">>,
       <<"random", "security random token rules">>,
       <<"secrets", "security random token rules">>,
       <<"threading", "concurrency rules">>, <<"concurrent", "concurrency rules">>,
       <<"pytest", "testing rules">>, <<"unittest", "testing rules">>,
       <<"requests", "error handling rules">>, <<"flask", "error handling rules">>,
       <<"fastapi", "error handling rules">> >>

\* _IMPORT_TOPIC_MAP of csharp_lang.py, in insertion order
CS_IMPORT_TOPIC_MAP ==
    << <<"System.Data", "database rules">>, <<"SqlClient", "database rules">>,
       <<"EntityFramework", "database rules">>,
       <<"Microsoft.EntityFrameworkCore", "database rules">>,
       <<"System.Diagnostics.Process", "security subprocess rules">>,
       <<"Process.Start", "security subprocess rules">>,
       <<"Assembly.Load", "security eval rules">>,
       <<"Activator.CreateInstance", "security eval rules">>,
       <<"Console.Write", "logging rules">>, <<"ILogger", "logging rules">>,
       <<"Serilog", "logging rules">>, <<"NLog", "logging rules">>,
       <<"System.Random", "security random token rules">>,
       <<"RandomNumberGenerator", "security random token rules">>,
       <<"System.Threading", "concurrency rules">>, <<"Task.Run", "concurrency rules">>,
       <<"Parallel.", "concurrency rules">>,
       <<"HttpClient", "error handling rules">>, <<"WebClient", "error handling rules">>,
       <<"Xunit", "testing rules">>, <<"NUnit", "testing rules">>,
       <<"MSTest", "testing rules">>,
       <<"Newtonsoft.Json", "serialization rules">>,
       <<"System.Text.Json", "serialization rules">>,
       <<"BinaryFormatter", "security deserialization rules">> >>

ImportTopicMap(lang) == IF lang = "Python" THEN PY_IMPORT_TOPIC_MAP ELSE CS_IMPORT_TOPIC_MAP

\* the keywords that occur (as substrings) in one word of source text
KeywordsIn(word) ==
    CASE word = "evaluate" -> {"eval"}
      [] word = "execute" -> {"exec"}
      [] word = "Microsoft.EntityFrameworkCore" -> {"EntityFramework", "Microsoft.EntityFrameworkCore"}
      [] OTHER -> {word}

\* `keyword in source_code`
KeywordInSource(keyword, source) ==
    \E i \in 1..Len(source) : keyword \in KeywordsIn(source[i])

RECURSIVE MatchTopics(_, _, _)
\* the loop of derive_rag_queries over the table; `acc` is queries (and seen)
MatchTopics(table, source, acc) ==
    IF Len(table) = 0 THEN acc
    ELSE LET keyword == table[1][1]
             topic == table[1][2]
             hit == KeywordInSource(keyword, source)
                    /\ ~(\E j \in 1..Len(acc) : acc[j] = topic)
         IN MatchTopics(Tail(table), source, IF hit THEN Append(acc, topic) ELSE acc)

\* DeriveRagQueries that puts the general topic first
DeriveRagQueries_GeneralFirst(lang, source) ==
    LET matched == MatchTopics(ImportTopicMap(lang), source, <<>>) IN
    IF \E j \in 1..Len(matched) : matched[j] = "general code style"
    THEN matched ELSE <<"general code style">> \o matched

\* PythonProfile.derive_rag_queries / CSharpProfile.derive_rag_queries
DeriveRagQueries(lang, source) ==
    LET matched == MatchTopics(ImportTopicMap(lang), source, <<>>) IN
    IF \E j \in 1..Len(matched) : matched[j] = "general code style"
    THEN matched ELSE Append(matched, "general code style")

RECURSIVE AppendUnseen(_, _)
\* the inner loop of Evaluator._fetch_rag_context: append the chunks of one
\* retrieve() answer that were not seen before
AppendUnseen(chunks, answer) ==
    IF Len(answer) = 0 THEN chunks
    ELSE AppendUnseen(IF \E j \in 1..Len(chunks) : chunks[j] = answer[1]
                      THEN chunks ELSE Append(chunks, answer[1]),
                      Tail(answer))

-----------------------------------------------------------------------------
(* Inputs of one evaluation *)

Suffixes == {".py", ".PY", ".cs", ".txt", ""}

\* source texts: empty, whitespace only, and texts with and without keywords
Contents ==
    {<<>>, <<WS>>, <<WS, "x", WS>>, <<"print", WS, "sqlite3", WS, "logging">>}

\* the paths given to evaluate: a missing path or a regular file
Files ==
    [kind : {"missing"}, suffix : Suffixes, content : {<<>>}]
    \cup [kind : {"file"}, suffix : Suffixes, content : Contents]

FilePath(f) == <<"src/a", f.suffix>>

\* a complexity block of radon / of the C# complexity estimate
Block(c) == [name |-> "f", complexity |-> c]

\* the lists of blocks a complexity tool reports in the pipeline
PipelineBlocks == {<<>>, <<Block(3)>>, <<Block(16), Block(20)>>}

\* one tool's entry of the report
ToolEntry(err) == [error |-> err]

ComplexityEntry(blocks, err) == [blocks |-> blocks, error |-> err]

\* StaticTools.run_all / CSharpTools.run_all: one entry per tool under its
\* fixed key
RunAll(lang, blocks, err) ==
    IF lang = "Python"
    THEN [pylint |-> ToolEntry(None), radon |-> ComplexityEntry(blocks, err),
          bandit |-> ToolEntry(None), mypy |-> ToolEntry(None)]
    ELSE [dotnet_build |-> ToolEntry(None), devskim |-> ToolEntry(None),
          complexity |-> ComplexityEntry(blocks, err)]

\* the answers of RuleRetriever.retrieve
ChunkLists == {<<>>, <<"c1">>, <<"c2", "c1", "c2">>}

\* texts the model endpoint returns (chat never returns empty content)
Responses ==
    { <<"{vv:[Critical],sum}">>,
      <<BT, BT, BT, JSONWORD, WS, "{vv:[major,Minor,Info,null],sum}", WS, BT, BT, BT>>,
      <<"{vv:[Critical]}">>, <<"{sum}">>, <<"{}">>, <<"{vv:null,sum}">>,
      <<"[issue]">>, <<BT, BT, BT, "[]", BT, BT, BT>>,
      <<"\"text\"">>, <<"42">>, <<"null">>,
      <<"Sure:", WS, "{vv:[Critical],sum}">>,
      <<"{vv:[Critical],sum}", WS, "trailing">>,
      <<"{vv:[Crit">>,
      <<WS>> }

\* exceptions LLMClient.chat lets escape: RuntimeError once the retries are
\* used up, IndexError from choices[0] on an empty `choices` list
ChatExceptions == {"RuntimeError", "IndexError"}

-----------------------------------------------------------------------------
(* Evaluator.evaluate, one action per step *)

Ev(op, ev) == [op |-> op, ev |-> ev]

\* ErrorResult with the error message only
ErrorResult_Bare(file_path, message) ==
    [file |-> file_path, language |-> "unknown", score |-> PyInt(0), violations |-> PyList(<<>>),
     error |-> message]

\* ErrorResult that also sets parse_error
ErrorResult_ParseErrorFlag(file_path, message) ==
    [file |-> file_path, language |-> "unknown", score |-> PyInt(0), violations |-> PyList(<<>>),
     summary |-> message, reliability_analysis |-> message,
     maintainability_analysis |-> EmptyStr, error |-> message, parse_error |-> TRUE]

\* Evaluator._error_result
ErrorResult(file_path, message) ==
    [file |-> file_path, language |-> "unknown", score |-> PyInt(0), violations |-> PyList(<<>>),
     summary |-> message, reliability_analysis |-> message,
     maintainability_analysis |-> EmptyStr, error |-> message]

\* FinalResult that reports an empty list in place of the verified violations
FinalResult_DropsViolations(file_path, lang, final_score, data, parse_error) ==
    [file |-> file_path, language |-> lang, score |-> final_score,
     violations |-> PyList(<<>>),
     summary |-> data.analysis_summary,
     reliability_analysis |-> data.analysis_summary,
     maintainability_analysis |-> EmptyStr, parse_error |-> parse_error]

\* the record built at the end of evaluate
FinalResult(file_path, lang, final_score, data, parse_error) ==
    [file |-> file_path, language |-> lang, score |-> final_score,
     violations |-> data.verified_violations,
     summary |-> data.analysis_summary,
     reliability_analysis |-> data.analysis_summary,
     maintainability_analysis |-> EmptyStr, parse_error |-> parse_error]

\* str(exc) of the RuntimeError LLMClient.chat raises
ChatErrorText == <<"LLM API failed after retries.">>

\* `return r` from evaluate
Return(r) == /\ result' = r
             /\ pc' = "done"
             /\ UNCHANGED exception

\* an exception leaves evaluate
Raise(e) == /\ exception' = e
            /\ pc' = "raised"
            /\ UNCHANGED result

\* LLMClient.chat is not running / no batch is running
ChatIdle == maxRetries = 0 /\ attempt = 0 /\ backoff = 0 /\ chatReturn = <<>>

BatchIdle == workers = 0 /\ futures = <<>> /\ results = <<>> /\ reported = <<>>

CleanIdle == cleanIn = <<>> /\ cleanOnce = <<>> /\ cleanTwice = <<>>

\* no evaluation is running: the state of evaluate's locals in the
\* specifications of the other operations
EvaluateIdle ==
    /\ file = Unset
    /\ ragEnabled = FALSE
    /\ profile = None
    /\ tools = Unset
    /\ queries = <<>>
    /\ ragChunks = <<>>
    /\ potentialIssues = <<>>
    /\ judgeResponse = <<>>
    /\ refinerResponse = <<>>
    /\ firstError = <<>>
    /\ verifiedData = Unset
    /\ parseError = FALSE
    /\ result = Unset
    /\ scoreIn = Unset
    /\ scoreOut = -1
    /\ lintFiltered = Unset
    /\ detectiveResponse = <<>>
    /\ retrieved = <<>>

Init ==
    /\ mode = "eval"
    /\ pc = "start"
    /\ file \in Files
    /\ ragEnabled \in BOOLEAN
    /\ profile = None
    /\ tools = Unset
    /\ queries = <<>>
    /\ ragChunks = <<>>
    /\ potentialIssues = <<>>
    /\ judgeResponse = <<>>
    /\ refinerResponse = <<>>
    /\ firstError = <<>>
    /\ verifiedData = Unset
    /\ parseError = FALSE
    /\ result = Unset
    /\ exception = None
    /\ log = <<>>
    /\ scoreIn = Unset
    /\ scoreOut = -1
    /\ lintFiltered = Unset
    /\ detectiveResponse = <<>>
    /\ retrieved = <<>>
    /\ ChatIdle
    /\ BatchIdle
    /\ CleanIdle

\* Precheck with the emptiness test made before the extension test
Precheck_EmptyFirst ==
    /\ mode = "eval"
    /\ pc = "start"
    /\ IF file.kind = "missing"
       THEN Return(ErrorResult(FilePath(file), <<"File not found.">>)) /\ UNCHANGED profile
       ELSE IF Len(Strip(file.content)) = 0
       THEN Return(ErrorResult(FilePath(file), <<"File is empty.">>)) /\ UNCHANGED profile
       ELSE IF DetectProfile(file.suffix) = None
       THEN /\ Return(ErrorResult(FilePath(file),
                                  <<"Unsupported file type: '", file.suffix, "'.">>))
            /\ UNCHANGED profile
       ELSE /\ profile' = DetectProfile(file.suffix)
            /\ pc' = "tools"
            /\ UNCHANGED <<result, exception>>
    /\ UNCHANGED <<mode, chatVars, batchVars, cleanVars, detectiveResponse, retrieved, lintFiltered, file, ragEnabled, tools, queries, ragChunks, potentialIssues,
                   judgeResponse, refinerResponse, firstError, verifiedData, parseError,
                   log, scoreIn, scoreOut>>

\* evaluate, up to the three early returns
Precheck ==
    /\ mode = "eval"
    /\ pc = "start"
    /\ IF file.kind = "missing"
       THEN Return(ErrorResult(FilePath(file), <<"File not found.">>)) /\ UNCHANGED profile
       ELSE IF DetectProfile(file.suffix) = None
       THEN /\ Return(ErrorResult(FilePath(file),
                                  <<"Unsupported file type: '", file.suffix, "'.">>))
            /\ UNCHANGED profile
       ELSE /\ profile' = DetectProfile(file.suffix)
            /\ IF Len(Strip(file.content)) = 0
               THEN Return(ErrorResult(FilePath(file), <<"File is empty.">>))
               ELSE pc' = "tools" /\ UNCHANGED <<result, exception>>
    /\ UNCHANGED <<mode, chatVars, batchVars, cleanVars, detectiveResponse, retrieved, lintFiltered, file, ragEnabled, tools, queries, ragChunks, potentialIssues,
                   judgeResponse, refinerResponse, firstError, verifiedData, parseError, log,
                   scoreIn, scoreOut>>

\* profile.run_tools(file_path) is called
RunToolsCall ==
    /\ mode = "eval"
    /\ pc = "tools"
    /\ pc' = "tools_wait"
    /\ log' = Append(log, Ev("tools", "call"))
    /\ UNCHANGED <<mode, chatVars, batchVars, cleanVars, detectiveResponse, retrieved, lintFiltered, file, ragEnabled, profile, tools, queries, ragChunks,
                   potentialIssues, judgeResponse, refinerResponse, firstError, verifiedData,
                   parseError, result, exception, scoreIn, scoreOut>>

\* run_tools returns the report; a failed tool has an error string and no blocks
RunToolsReturn ==
    /\ mode = "eval"
    /\ pc = "tools_wait"
    /\ \E blocks \in PipelineBlocks, err \in {None, "Radon timed out."} :
          /\ (err # None => blocks = <<>>)
          /\ tools' = RunAll(profile, blocks, err)
    /\ pc' = "rag"
    /\ log' = Append(log, Ev("tools", "return"))
    /\ UNCHANGED <<mode, chatVars, batchVars, cleanVars, detectiveResponse, retrieved, lintFiltered, file, ragEnabled, profile, queries, ragChunks,
                   potentialIssues, judgeResponse, refinerResponse, firstError, verifiedData,
                   parseError, result, exception, scoreIn, scoreOut>>

\* step 2: derive the queries when retrieval is enabled, bypass it otherwise
RagStart ==
    /\ mode = "eval"
    /\ pc = "rag"
    /\ IF ragEnabled
       THEN /\ queries' = DeriveRagQueries(profile, file.content)
            /\ pc' = "retrieve"
       ELSE /\ pc' = "detective"
            /\ UNCHANGED queries
    /\ UNCHANGED <<mode, chatVars, batchVars, cleanVars, detectiveResponse, retrieved, lintFiltered, file, ragEnabled, profile, tools, ragChunks,
                   potentialIssues, judgeResponse, refinerResponse, firstError, verifiedData,
                   parseError, result, exception, log, scoreIn, scoreOut>>

\* _fetch_rag_context: self._rag.retrieve(q) is called for the next query
RetrieveCall ==
    /\ mode = "eval"
    /\ pc = "retrieve"
    /\ Len(queries) > 0
    /\ pc' = "retrieve_wait"
    /\ log' = Append(log, Ev("retrieve", "call"))
    /\ UNCHANGED <<mode, chatVars, batchVars, cleanVars, detectiveResponse, retrieved, lintFiltered, file, ragEnabled, profile, tools, queries, ragChunks,
                   potentialIssues, judgeResponse, refinerResponse, firstError, verifiedData,
                   parseError, result, exception, scoreIn, scoreOut>>

\* RetrieveReturn that appends every chunk of the answer, seen or not
RetrieveReturn_KeepsDuplicates ==
    /\ mode = "eval"
    /\ pc = "retrieve_wait"
    /\ \E answer \in ChunkLists :
          /\ ragChunks' = ragChunks \o answer
          /\ retrieved' = Append(retrieved, answer)
    /\ queries' = Tail(queries)
    /\ pc' = IF Len(queries) > 1 THEN "retrieve" ELSE "detective"
    /\ log' = Append(log, Ev("retrieve", "return"))
    /\ UNCHANGED <<mode, chatVars, batchVars, cleanVars, detectiveResponse, lintFiltered, file, ragEnabled, profile, tools,
                   potentialIssues, judgeResponse, refinerResponse, firstError, verifiedData,
                   parseError, result, exception, scoreIn, scoreOut>>

\* retrieve returns; unseen chunks are appended; the loop goes on or ends
RetrieveReturn ==
    /\ mode = "eval"
    /\ pc = "retrieve_wait"
    /\ \E answer \in ChunkLists :
          /\ ragChunks' = AppendUnseen(ragChunks, answer)
          /\ retrieved' = Append(retrieved, answer)
    /\ queries' = Tail(queries)
    /\ pc' = IF Len(queries) > 1 THEN "retrieve" ELSE "detective"
    /\ log' = Append(log, Ev("retrieve", "return"))
    /\ UNCHANGED <<mode, chatVars, batchVars, cleanVars, detectiveResponse, lintFiltered, file, ragEnabled, profile, tools,
                   potentialIssues, judgeResponse, refinerResponse, firstError, verifiedData,
                   parseError, result, exception, scoreIn, scoreOut>>

\* retrieve raises: nothing in evaluate catches it
RetrieveRaise ==
    /\ mode = "eval"
    /\ pc = "retrieve_wait"
    /\ Raise("RetrieverError")
    /\ log' = Append(log, Ev("retrieve", "RetrieverError"))
    /\ UNCHANGED <<mode, chatVars, batchVars, cleanVars, detectiveResponse, retrieved, lintFiltered, file, ragEnabled, profile, tools, queries, ragChunks,
                   potentialIssues, judgeResponse, refinerResponse, firstError, verifiedData,
                   parseError, scoreIn, scoreOut>>

\* step 3: the Detective's chat call is made
DetectiveCall ==
    /\ mode = "eval"
    /\ pc = "detective"
    /\ pc' = "detective_wait"
    /\ log' = Append(log, Ev("Detective", "call"))
    /\ UNCHANGED <<mode, chatVars, batchVars, cleanVars, detectiveResponse, retrieved, lintFiltered, file, ragEnabled, profile, tools, queries, ragChunks,
                   potentialIssues, judgeResponse, refinerResponse, firstError, verifiedData,
                   parseError, result, exception, scoreIn, scoreOut>>

\* the Detective answers; its text is parsed into potential_issues
DetectiveReturn ==
    /\ mode = "eval"
    /\ pc = "detective_wait"
    /\ \E resp \in Responses :
          /\ detectiveResponse' = resp
          /\ potentialIssues' = ParseJsonList(resp)
    /\ pc' = "judge"
    /\ log' = Append(log, Ev("Detective", "return"))
    /\ UNCHANGED <<mode, chatVars, batchVars, cleanVars, retrieved, lintFiltered, file, ragEnabled, profile, tools, queries, ragChunks,
                   judgeResponse, refinerResponse, firstError, verifiedData,
                   parseError, result, exception, scoreIn, scoreOut>>

\* the Detective's chat call raises: RuntimeError is caught and turned into
\* an error result, anything else escapes
DetectiveRaise ==
    /\ mode = "eval"
    /\ pc = "detective_wait"
    /\ \E exc \in ChatExceptions :
          /\ log' = Append(log, Ev("Detective", exc))
          /\ IF exc = "RuntimeError"
             THEN Return(ErrorResult(FilePath(file),
                                     <<"LLM error (Detective): ">> \o ChatErrorText))
             ELSE Raise(exc)
    /\ UNCHANGED <<mode, chatVars, batchVars, cleanVars, detectiveResponse, retrieved, lintFiltered, file, ragEnabled, profile, tools, queries, ragChunks,
                   potentialIssues, judgeResponse, refinerResponse, firstError, verifiedData,
                   parseError, scoreIn, scoreOut>>

\* JudgeCall that does not wait for the Detective's answer
JudgeCall_Early ==
    /\ mode = "eval"
    /\ pc \in {"judge", "detective_wait"}
    /\ pc' = "judge_wait"
    /\ log' = Append(log, Ev("Judge", "call"))
    /\ UNCHANGED <<mode, chatVars, batchVars, cleanVars, detectiveResponse, retrieved, lintFiltered, file, ragEnabled, profile, tools, queries, ragChunks,
                   potentialIssues, judgeResponse, refinerResponse, firstError,
                   verifiedData, parseError, result, exception, scoreIn, scoreOut>>

\* step 4: the Judge's chat call is made
JudgeCall ==
    /\ mode = "eval"
    /\ pc = "judge"
    /\ pc' = "judge_wait"
    /\ log' = Append(log, Ev("Judge", "call"))
    /\ UNCHANGED <<mode, chatVars, batchVars, cleanVars, detectiveResponse, retrieved, lintFiltered, file, ragEnabled, profile, tools, queries, ragChunks,
                   potentialIssues, judgeResponse, refinerResponse, firstError, verifiedData,
                   parseError, result, exception, scoreIn, scoreOut>>

\* the Judge answers
JudgeReturn ==
    /\ mode = "eval"
    /\ pc = "judge_wait"
    /\ judgeResponse' \in Responses
    /\ pc' = "parse"
    /\ log' = Append(log, Ev("Judge", "return"))
    /\ UNCHANGED <<mode, chatVars, batchVars, cleanVars, detectiveResponse, retrieved, lintFiltered, file, ragEnabled, profile, tools, queries, ragChunks,
                   potentialIssues, refinerResponse, firstError, verifiedData,
                   parseError, result, exception, scoreIn, scoreOut>>

\* JudgeRaise that calls the Judge again after a RuntimeError
JudgeRaise_Retry ==
    /\ mode = "eval"
    /\ pc = "judge_wait"
    /\ \E exc \in ChatExceptions :
          /\ log' = Append(log, Ev("Judge", exc))
          /\ IF exc = "RuntimeError"
             THEN pc' = "judge" /\ UNCHANGED <<result, exception>>
             ELSE Raise(exc)
    /\ UNCHANGED <<mode, chatVars, batchVars, cleanVars, detectiveResponse, retrieved, lintFiltered, file, ragEnabled, profile, tools, queries, ragChunks,
                   potentialIssues, judgeResponse, refinerResponse, firstError,
                   verifiedData, parseError, scoreIn, scoreOut>>

\* the Judge's chat call raises
JudgeRaise ==
    /\ mode = "eval"
    /\ pc = "judge_wait"
    /\ \E exc \in ChatExceptions :
          /\ log' = Append(log, Ev("Judge", exc))
          /\ IF exc = "RuntimeError"
             THEN Return(ErrorResult(FilePath(file),
                                     <<"LLM error (Judge): ">> \o ChatErrorText))
             ELSE Raise(exc)
    /\ UNCHANGED <<mode, chatVars, batchVars, cleanVars, detectiveResponse, retrieved, lintFiltered, file, ragEnabled, profile, tools, queries, ragChunks,
                   potentialIssues, judgeResponse, refinerResponse, firstError, verifiedData,
                   parseError, scoreIn, scoreOut>>

\* _parse_judge_response_with_refiner, first attempt: clean and parse the
\* Judge's text; success goes to scoring, a parse error to the Refiner, and
\* the AttributeError of a non-object document leaves evaluate
ParseJudge ==
    /\ mode = "eval"
    /\ pc = "parse"
    /\ LET r == TryParseJudgeJson(CleanJsonResponse(judgeResponse)) IN
       CASE r.outcome = "ok" ->
               /\ verifiedData' = r.data
               /\ parseError' = FALSE
               /\ pc' = "score"
               /\ UNCHANGED <<firstError, result, exception>>
         [] r.outcome = "error" ->
               /\ firstError' = r.error
               /\ pc' = "refiner"
               /\ UNCHANGED <<verifiedData, parseError, result, exception>>
         [] OTHER ->
               /\ Raise("AttributeError")
               /\ UNCHANGED <<firstError, verifiedData, parseError>>
    /\ UNCHANGED <<mode, chatVars, batchVars, cleanVars, detectiveResponse, retrieved, lintFiltered, file, ragEnabled, profile, tools, queries, ragChunks,
                   potentialIssues, judgeResponse, refinerResponse, log, scoreIn, scoreOut>>

\* the Refiner's chat call is made
RefinerCall ==
    /\ mode = "eval"
    /\ pc = "refiner"
    /\ pc' = "refiner_wait"
    /\ log' = Append(log, Ev("Refiner", "call"))
    /\ UNCHANGED <<mode, chatVars, batchVars, cleanVars, detectiveResponse, retrieved, lintFiltered, file, ragEnabled, profile, tools, queries, ragChunks,
                   potentialIssues, judgeResponse, refinerResponse, firstError, verifiedData,
                   parseError, result, exception, scoreIn, scoreOut>>

\* RefinerReturn that asks the Refiner again when its text does not parse
RefinerReturn_Retry ==
    /\ mode = "eval"
    /\ pc = "refiner_wait"
    /\ \E resp \in Responses :
          LET r == TryParseJudgeJson(CleanJsonResponse(resp)) IN
          /\ refinerResponse' = resp
          /\ CASE r.outcome = "ok" ->
                    /\ verifiedData' = r.data
                    /\ parseError' = FALSE
                    /\ pc' = "score"
                    /\ UNCHANGED <<result, exception>>
               [] r.outcome = "error" ->
                    /\ pc' = "refiner"
                    /\ UNCHANGED <<verifiedData, parseError, result, exception>>
               [] OTHER ->
                    /\ Raise("AttributeError")
                    /\ UNCHANGED <<verifiedData, parseError>>
    /\ log' = Append(log, Ev("Refiner", "return"))
    /\ UNCHANGED <<mode, chatVars, batchVars, cleanVars, detectiveResponse, retrieved, lintFiltered, file, ragEnabled, profile, tools, queries, ragChunks,
                   potentialIssues, judgeResponse, firstError, scoreIn, scoreOut>>

\* RefinerReturn that reports a parse error even when the repaired text parses
RefinerReturn_FlagAlways ==
    /\ mode = "eval"
    /\ pc = "refiner_wait"
    /\ \E resp \in Responses :
          LET r == TryParseJudgeJson(CleanJsonResponse(resp)) IN
          /\ refinerResponse' = resp
          /\ CASE r.outcome = "ok" ->
                    /\ verifiedData' = r.data
                    /\ parseError' = TRUE
                    /\ pc' = "score"
                    /\ UNCHANGED <<result, exception>>
               [] r.outcome = "error" ->
                    /\ verifiedData' =
                          [verified_violations |-> PyList(<<>>),
                           analysis_summary |-> <<"JSON parse error: ">> \o firstError
                                                \o <<". Refiner failed: ">> \o r.error]
                    /\ parseError' = TRUE
                    /\ pc' = "score"
                    /\ UNCHANGED <<result, exception>>
               [] OTHER ->
                    /\ Raise("AttributeError")
                    /\ UNCHANGED <<verifiedData, parseError>>
    /\ log' = Append(log, Ev("Refiner", "return"))
    /\ UNCHANGED <<mode, chatVars, batchVars, cleanVars, detectiveResponse, retrieved, lintFiltered, file, ragEnabled, profile, tools, queries, ragChunks,
                   potentialIssues, judgeResponse, firstError, scoreIn, scoreOut>>

\* the Refiner answers; second attempt: its text is cleaned and parsed
RefinerReturn ==
    /\ mode = "eval"
    /\ pc = "refiner_wait"
    /\ \E resp \in Responses :
          LET r == TryParseJudgeJson(CleanJsonResponse(resp)) IN
          /\ refinerResponse' = resp
          /\ CASE r.outcome = "ok" ->
                    /\ verifiedData' = r.data
                    /\ parseError' = FALSE
                    /\ pc' = "score"
                    /\ UNCHANGED <<result, exception>>
               [] r.outcome = "error" ->
                    /\ verifiedData' =
                          [verified_violations |-> PyList(<<>>),
                           analysis_summary |-> <<"JSON parse error: ">> \o firstError
                                                \o <<". Refiner failed: ">> \o r.error]
                    /\ parseError' = TRUE
                    /\ pc' = "score"
                    /\ UNCHANGED <<result, exception>>
               [] OTHER ->
                    /\ Raise("AttributeError")
                    /\ UNCHANGED <<verifiedData, parseError>>
    /\ log' = Append(log, Ev("Refiner", "return"))
    /\ UNCHANGED <<mode, chatVars, batchVars, cleanVars, detectiveResponse, retrieved, lintFiltered, file, ragEnabled, profile, tools, queries, ragChunks,
                   potentialIssues, judgeResponse, firstError, scoreIn, scoreOut>>

\* the Refiner's chat call raises: RuntimeError ends the repair with a parse
\* error, anything else escapes
RefinerRaise ==
    /\ mode = "eval"
    /\ pc = "refiner_wait"
    /\ \E exc \in ChatExceptions :
          /\ log' = Append(log, Ev("Refiner", exc))
          /\ IF exc = "RuntimeError"
             THEN /\ verifiedData' =
                        [verified_violations |-> PyList(<<>>),
                         analysis_summary |-> <<"JSON parse error: ">> \o firstError
                                              \o <<". Refiner call failed.">>]
                  /\ parseError' = TRUE
                  /\ pc' = "score"
                  /\ UNCHANGED <<result, exception>>
             ELSE /\ Raise(exc)
                  /\ UNCHANGED <<verifiedData, parseError>>
    /\ UNCHANGED <<mode, chatVars, batchVars, cleanVars, detectiveResponse, retrieved, lintFiltered, file, ragEnabled, profile, tools, queries, ragChunks,
                   potentialIssues, judgeResponse, refinerResponse, firstError, scoreIn, scoreOut>>

\* Finish that calls calculate_score whatever parse_error says
Finish_ScoresAnyway ==
    /\ mode = "eval"
    /\ pc = "score"
    /\ IF verifiedData.verified_violations.type # "list"
       THEN /\ Raise("TypeError")
            /\ log' = log \o <<Ev("score", "call"), Ev("score", "TypeError")>>
       ELSE /\ Return(FinalResult(FilePath(file), profile,
                                  PyInt(CalculateScore(profile,
                                      verifiedData.verified_violations.items, tools)),
                                  verifiedData, parseError))
            /\ log' = log \o <<Ev("score", "call"), Ev("score", "return")>>
    /\ UNCHANGED <<mode, chatVars, batchVars, cleanVars, detectiveResponse, retrieved, lintFiltered, file, ragEnabled, profile, tools, queries, ragChunks,
                   potentialIssues, judgeResponse, refinerResponse, firstError,
                   verifiedData, parseError, scoreIn, scoreOut>>

\* step 6: the score (the sentinel after a parse error, calculate_score
\* otherwise) and the returned record.  calculate_score iterates over the
\* violations: a null in their place raises TypeError.
Finish ==
    /\ mode = "eval"
    /\ pc = "score"
    /\ IF parseError
       THEN /\ Return(FinalResult(FilePath(file), profile, SCORE_NOT_AVAILABLE,
                                  verifiedData, parseError))
            /\ UNCHANGED log
       ELSE IF verifiedData.verified_violations.type # "list"
       THEN /\ Raise("TypeError")
            /\ log' = log \o <<Ev("score", "call"), Ev("score", "TypeError")>>
       ELSE /\ Return(FinalResult(FilePath(file), profile,
                                  PyInt(CalculateScore(profile,
                                      verifiedData.verified_violations.items, tools)),
                                  verifiedData, parseError))
            /\ log' = log \o <<Ev("score", "call"), Ev("score", "return")>>
    /\ UNCHANGED <<mode, chatVars, batchVars, cleanVars, detectiveResponse, retrieved, lintFiltered, file, ragEnabled, profile, tools, queries, ragChunks,
                   potentialIssues, judgeResponse, refinerResponse, firstError, verifiedData,
                   parseError, scoreIn, scoreOut>>

Next ==
    \/ Precheck
    \/ RunToolsCall
    \/ RunToolsReturn
    \/ RagStart
    \/ RetrieveCall
    \/ RetrieveReturn
    \/ RetrieveRaise
    \/ DetectiveCall
    \/ DetectiveReturn
    \/ DetectiveRaise
    \/ JudgeCall
    \/ JudgeReturn
    \/ JudgeRaise
    \/ ParseJudge
    \/ RefinerCall
    \/ RefinerReturn
    \/ RefinerRaise
    \/ Finish

Spec == Init /\ [][Next]_vars

-----------------------------------------------------------------------------
(* calculate_score on its own: the inputs grow one violation at a time *)

\* the severities the verified violations carry
ScoreSeverities == {"Critical", " major ", "Minor", None}

\* the lists the growth starts from: the empty list, and one violation whose
\* severity is none of the three tiers
ScoreSeeds == {<<>>, <<Violation(1, "Info")>>}

\* cyclomatic complexities at and above the threshold
ScoreComplexities == {COMPLEXITY_THRESHOLD, COMPLEXITY_THRESHOLD + 1}

\* lists of at most MaxBlocks blocks
BlockLists ==
    UNION {[1..n -> {Block(c) : c \in ScoreComplexities}] : n \in 0..MaxBlocks}

\* tool reports for the profile: without a complexity entry, with the entry
\* of the profile's own complexity tool, and with a block above the threshold
\* under the key of the other profile's tool
ScoreReports(lang) ==
    IF lang = "Python"
    THEN {<<>>, [complexity |-> ComplexityEntry(<<Block(COMPLEXITY_THRESHOLD + 1)>>, None)]}
         \cup {[radon |-> ComplexityEntry(b, None)] : b \in BlockLists}
    ELSE {<<>>, [radon |-> ComplexityEntry(<<Block(COMPLEXITY_THRESHOLD + 1)>>, None)]}
         \cup {[complexity |-> ComplexityEntry(b, None)] : b \in BlockLists}

InitScore ==
    /\ mode = "score"
    /\ pc = "unscored"
    /\ file = Unset
    /\ ragEnabled = FALSE
    /\ profile = None
    /\ tools = Unset
    /\ queries = <<>>
    /\ ragChunks = <<>>
    /\ potentialIssues = <<>>
    /\ judgeResponse = <<>>
    /\ refinerResponse = <<>>
    /\ firstError = <<>>
    /\ verifiedData = Unset
    /\ parseError = FALSE
    /\ result = Unset
    /\ exception = None
    /\ log = <<>>
    /\ scoreIn \in UNION {[lang : {l}, violations : ScoreSeeds, tools : ScoreReports(l)] :
                              l \in {"Python", "C#"}}
    /\ scoreOut = -1
    /\ lintFiltered = Unset
    /\ detectiveResponse = <<>>
    /\ retrieved = <<>>
    /\ ChatIdle
    /\ BatchIdle
    /\ CleanIdle

\* calculate_score is called on the inputs
ScoreCall ==
    /\ mode = "score"
    /\ pc = "unscored"
    /\ scoreOut' = CalculateScore(scoreIn.lang, scoreIn.violations, scoreIn.tools)
    /\ pc' = "scored"
    /\ UNCHANGED <<mode, chatVars, batchVars, cleanVars, detectiveResponse, retrieved, lintFiltered, file, ragEnabled, profile, tools, queries, ragChunks,
                   potentialIssues, judgeResponse, refinerResponse, firstError, verifiedData,
                   parseError, result, exception, log, scoreIn>>

\* one more violation is appended to the list and calculate_score is called
\* on the longer list, with the same tool report
ScoreAppended ==
    /\ mode = "score"
    /\ pc = "scored"
    /\ Len(scoreIn.violations) < MaxViolations
    /\ \E sev \in ScoreSeverities :
          scoreIn' = [scoreIn EXCEPT !.violations =
                         Append(@, Violation(Len(@) + 1, sev))]
    /\ scoreOut' = CalculateScore(scoreIn'.lang, scoreIn'.violations, scoreIn'.tools)
    /\ UNCHANGED <<mode, chatVars, batchVars, cleanVars, detectiveResponse, retrieved, lintFiltered, pc, file, ragEnabled, profile, tools, queries, ragChunks,
                   potentialIssues, judgeResponse, refinerResponse, firstError, verifiedData,
                   parseError, result, exception, log>>

NextScore ==
    \/ ScoreCall
    \/ ScoreAppended

SpecScore == InitScore /\ [][NextScore]_vars

-----------------------------------------------------------------------------
(* filter_lint on its own: StaticTools.filter_pylint_results and           *)
(* CSharpTools.filter_build_diagnostics                                     *)

\* the longest list of findings of one tool
MaxFindings == 3

\* a Python float, counted in tenths: 5.0 is PyFloat(50)
PyFloat(tenths) == [tenths |-> tenths]

\* isinstance(score, (int, float))
IsNumber(v) == "tenths" \in DOMAIN v

\* low_score_threshold = 5.0, in tenths
LOW_SCORE_THRESHOLD == 50

\* IGNORED_MESSAGE_IDS of filter_pylint_results
IGNORED_MESSAGE_IDS == {"C0114", "C0115", "C0116", "C0301", "W0511", "R0903", "R0913"}

\* IGNORED_IDS of filter_build_diagnostics
IGNORED_IDS == {"CS1591"}

\* str.strip() on the types and identifiers of the model
StripText(t) ==
    CASE t = " W0511 " -> "W0511"
      [] t = " E " -> "E"
      [] OTHER -> t

\* str.lower() on the (stripped) types of the model
LowerText(t) ==
    CASE t = "E" -> "e"
      [] t = "R" -> "r"
      [] OTHER -> t

\* `x or ""`
OrEmpty(x) == IF x = None THEN "" ELSE x

\* _type_bucket
TypeBucket(m) ==
    LET t == LowerText(StripText(OrEmpty(m.type))) IN
    CASE t \in {"fatal", "f"} -> "fatal"
      [] t \in {"error", "e"} -> "error"
      [] t \in {"warning", "w"} -> "warning"
      [] t \in {"convention", "c"} -> "convention"
      [] t \in {"refactor", "r"} -> "refactor"
      [] t = "" -> "unknown"
      [] OTHER -> t

\* BelowThreshold with `<=` in place of `<`
BelowThreshold_Inclusive(score) ==
    IsNumber(score) /\ score.tenths <= LOW_SCORE_THRESHOLD

\* isinstance(score, (int, float)) and score < low_score_threshold
BelowThreshold(score) ==
    IsNumber(score) /\ score.tenths < LOW_SCORE_THRESHOLD

\* the body of the loop over the messages: TRUE when m is appended to
\* `filtered`
KeepsMessage(m, score) ==
    LET msg_id == StripText(OrEmpty(m.message_id))
        bucket == TypeBucket(m)
    IN IF msg_id \in IGNORED_MESSAGE_IDS THEN FALSE
       ELSE IF bucket \in {"fatal", "error", "warning"} THEN TRUE
       ELSE IF bucket \in {"convention", "refactor"} THEN BelowThreshold(score)
       ELSE BelowThreshold(score)

\* dict.get(key, default)
Get(d, key, default) == IF key \in DOMAIN d THEN d[key] ELSE default

\* d with d[key] = value
With(d, key, value) ==
    [k \in DOMAIN d \cup {key} |-> IF k = key THEN value ELSE d[k]]

\* the append in the loop of filter_pylint_results, writing the bucket into
\* the kept message's type
FilterPylintResults_Normalised(raw_result) ==
    LET Keeps(m) == KeepsMessage(m, Get(raw_result, "score", PyFloat(0)))
        kept == SelectSeq(Get(raw_result, "messages", <<>>), Keeps)
    IN With(raw_result, "messages",
            [i \in 1..Len(kept) |-> [kept[i] EXCEPT !.type = TypeBucket(kept[i])]])

\* StaticTools.filter_pylint_results
FilterPylintResults(raw_result) ==
    LET Keeps(m) == KeepsMessage(m, Get(raw_result, "score", PyFloat(0))) IN
    With(raw_result, "messages", SelectSeq(Get(raw_result, "messages", <<>>), Keeps))

\* CSharpTools.filter_build_diagnostics
FilterBuildDiagnostics(raw) ==
    LET Keeps(d) == Get(d, "id", "") \notin IGNORED_IDS IN
    With(raw, "diagnostics", SelectSeq(Get(raw, "diagnostics", <<>>), Keeps))

\* PythonProfile.filter_lint / CSharpProfile.filter_lint
FilterLint(lang, report) ==
    IF lang = "Python"
    THEN FilterPylintResults(report.pylint)
    ELSE FilterBuildDiagnostics(Get(report, "dotnet_build", <<>>))

\* what Pylint reports: the type and the identifier of one message.  The
\* first letter of a Pylint identifier is the letter of its type.
PylintKinds ==
    { <<"fatal", "F0001">>, <<"error", "E0602">>, <<" E ", "E1101">>,
      <<"warning", "W0612">>, <<"warning", " W0511 ">>,
      <<"convention", "C0301">>, <<"convention", "C0103">>,
      <<"R", "R0903">>, <<"refactor", "R1705">>,
      <<"info", "I0011">>, <<None, "">> }

\* the scores run_pylint stores: numbers around the threshold, and the null
\* of a report without a score
PylintScores ==
    {PyFloat(0), PyFloat(49), PyFloat(50), PyFloat(51), PyFloat(100), PyNone}

\* what `dotnet build` reports: the identifier and the level of one
\* diagnostic; CS1591 is a warning, and an error in a project that treats
\* warnings as errors
BuildKinds ==
    { <<"CS1591", "warning">>, <<"CS1591", "error">>, <<"CS0103", "error">>,
      <<"CS8618", "warning">> }

\* the lists of at most MaxFindings findings; `line` tells the findings of
\* one list apart
PylintMessages ==
    UNION {{[i \in 1..n |-> [type |-> k[i][1], message_id |-> k[i][2], line |-> i]] :
               k \in [1..n -> PylintKinds]} : n \in 0..MaxFindings}

BuildDiagnostics ==
    UNION {{[i \in 1..n |-> [id |-> k[i][1], severity |-> k[i][2], line |-> i]] :
               k \in [1..n -> BuildKinds]} : n \in 0..MaxFindings}

\* the reports run_tools hands to filter_lint
LintReports(lang) ==
    IF lang = "Python"
    THEN {[RunAll(lang, <<>>, None) EXCEPT
              !.pylint = [score |-> s, messages |-> ms, error |-> None]] :
             s \in PylintScores, ms \in PylintMessages}
    ELSE {[RunAll(lang, <<>>, None) EXCEPT
              !.dotnet_build = [diagnostics |-> ds, error |-> None]] :
             ds \in BuildDiagnostics}

InitFilter ==
    /\ mode = "filter"
    /\ pc = "unfiltered"
    /\ file = Unset
    /\ ragEnabled = FALSE
    /\ profile \in {"Python", "C#"}
    /\ tools \in LintReports(profile)
    /\ queries = <<>>
    /\ ragChunks = <<>>
    /\ potentialIssues = <<>>
    /\ judgeResponse = <<>>
    /\ refinerResponse = <<>>
    /\ firstError = <<>>
    /\ verifiedData = Unset
    /\ parseError = FALSE
    /\ result = Unset
    /\ exception = None
    /\ log = <<>>
    /\ scoreIn = Unset
    /\ scoreOut = -1
    /\ lintFiltered = Unset
    /\ detectiveResponse = <<>>
    /\ retrieved = <<>>
    /\ ChatIdle
    /\ BatchIdle
    /\ CleanIdle

\* filter_lint is called on the report
FilterLintCall ==
    /\ mode = "filter"
    /\ pc = "unfiltered"
    /\ lintFiltered' = FilterLint(profile, tools)
    /\ pc' = "filtered"
    /\ UNCHANGED <<mode, chatVars, batchVars, cleanVars, detectiveResponse, retrieved, file, ragEnabled, profile, tools, queries, ragChunks,
                   potentialIssues, judgeResponse, refinerResponse, firstError,
                   verifiedData, parseError, result, exception, log, scoreIn, scoreOut>>

NextFilter == FilterLintCall

SpecFilter == InitFilter /\ [][NextFilter]_vars

-----------------------------------------------------------------------------
(* derive_rag_queries on its own *)

\* the longest source text, in words
MaxWords == 3

\* the words of the source texts: keywords of the two tables, words that
\* contain a keyword, and a word without any
SourceWords ==
    {"x", "sqlite3", "sqlalchemy", "evaluate", "logging", "print",
     "Microsoft.EntityFrameworkCore", "ILogger", "Task.Run"}

\* the source texts of at most MaxWords words
Sources == UNION {[1..n -> SourceWords] : n \in 0..MaxWords}

InitRag ==
    /\ mode = "rag"
    /\ pc = "underived"
    /\ file \in [kind : {"file"}, suffix : {".py", ".cs"}, content : Sources]
    /\ ragEnabled = TRUE
    /\ profile = DetectProfile(file.suffix)
    /\ tools = Unset
    /\ queries = <<>>
    /\ ragChunks = <<>>
    /\ potentialIssues = <<>>
    /\ judgeResponse = <<>>
    /\ refinerResponse = <<>>
    /\ firstError = <<>>
    /\ verifiedData = Unset
    /\ parseError = FALSE
    /\ result = Unset
    /\ exception = None
    /\ log = <<>>
    /\ scoreIn = Unset
    /\ scoreOut = -1
    /\ lintFiltered = Unset
    /\ detectiveResponse = <<>>
    /\ retrieved = <<>>
    /\ ChatIdle
    /\ BatchIdle
    /\ CleanIdle

\* derive_rag_queries is called on the source text
DeriveRagQueriesCall ==
    /\ mode = "rag"
    /\ pc = "underived"
    /\ queries' = DeriveRagQueries(profile, file.content)
    /\ pc' = "derived"
    /\ UNCHANGED <<mode, chatVars, batchVars, cleanVars, detectiveResponse, retrieved, lintFiltered, file, ragEnabled, profile, tools, ragChunks,
                   potentialIssues, judgeResponse, refinerResponse, firstError,
                   verifiedData, parseError, result, exception, log, scoreIn, scoreOut>>

NextRag == DeriveRagQueriesCall

SpecRag == InitRag /\ [][NextRag]_vars

-----------------------------------------------------------------------------
(* run_tools on its own: StaticTools.run_all and CSharpTools.run_all call   *)
(* one wrapper per tool, each around one subprocess (run_complexity reads   *)
(* the file itself)                                                         *)

\* What the environment does to one wrapper:
\*   "output"         the tool ran and printed a report in its format
\*   "garbage"        the tool ran and printed text that is not JSON (mypy's
\*                    and dotnet build's output is scanned line by line for
\*                    a pattern: any text is in their format)
\*   "not_installed"  `python -m tool` for a module that is not installed:
\*                    exit status 1, empty stdout, the message on stderr
\*   "no_executable"  the executable is not on the PATH: FileNotFoundError
\*   "timeout"        subprocess.TimeoutExpired
\*   "no_csproj"      no project file above the source file
\*   "unreadable"     the source file cannot be read
ToolOutcomes(key) ==
    CASE key \in {"pylint", "radon", "bandit"}
            -> {"output", "garbage", "not_installed", "timeout"}
      [] key = "mypy" -> {"output", "not_installed", "timeout"}
      [] key = "dotnet_build" -> {"output", "no_executable", "timeout", "no_csproj"}
      [] key = "devskim" -> {"output", "garbage", "no_executable", "timeout"}
      [] OTHER -> {"output", "unreadable"}

\* StaticTools.run_pylint
RunPylint(outcome) ==
    CASE outcome = "output"
            -> [score |-> PyFloat(72), error |-> None,
                messages |-> <<[type |-> "warning", message_id |-> "W0612", line |-> 1]>>]
      [] outcome = "garbage"
            -> [score |-> PyFloat(0), messages |-> <<>>,
                error |-> "Failed to parse Pylint output: Expecting value"]
      [] outcome = "timeout"
            -> [score |-> PyFloat(0), messages |-> <<>>, error |-> "Pylint timed out."]
      [] OTHER -> [score |-> PyFloat(0), messages |-> <<>>, error |-> None]

\* StaticTools.run_radon
RunRadon(outcome) ==
    CASE outcome = "output"
            -> [blocks |-> <<Block(3)>>, average_complexity |-> PyFloat(30), error |-> None]
      [] outcome = "garbage"
            -> [blocks |-> <<>>, average_complexity |-> PyFloat(0),
                error |-> "Failed to parse Radon output: Expecting value"]
      [] outcome = "timeout"
            -> [blocks |-> <<>>, average_complexity |-> PyFloat(0),
                error |-> "Radon timed out."]
      [] OTHER -> [blocks |-> <<>>, average_complexity |-> PyFloat(0), error |-> None]

\* StaticTools.run_bandit
RunBandit(outcome) ==
    CASE outcome = "output"
            -> [issues |-> <<[test_id |-> "B105", line_number |-> 1]>>,
                metrics |-> "metrics", error |-> None]
      [] outcome = "garbage"
            -> [issues |-> <<>>, metrics |-> "{}",
                error |-> "Failed to parse Bandit output: Expecting value"]
      [] outcome = "timeout"
            -> [issues |-> <<>>, metrics |-> "{}", error |-> "Bandit timed out."]
      [] OTHER -> [issues |-> <<>>, metrics |-> "{}", error |-> None]

\* StaticTools.run_mypy
RunMypy(outcome) ==
    CASE outcome = "output"
            -> [errors |-> <<[line |-> 1, code |-> "assignment"]>>, error |-> None]
      [] outcome = "timeout" -> [errors |-> <<>>, error |-> "MyPy timed out."]
      [] OTHER -> [errors |-> <<>>, error |-> None]

\* CSharpTools.run_dotnet_build
RunDotnetBuild(outcome) ==
    CASE outcome = "output"
            -> [diagnostics |-> <<[id |-> "CS0103", severity |-> "error", line |-> 1]>>,
                error |-> None]
      [] outcome = "no_csproj"
            -> [diagnostics |-> <<>>,
                error |-> "No .csproj found; dotnet build diagnostics unavailable."]
      [] outcome = "no_executable"
            -> [diagnostics |-> <<>>, error |-> "'dotnet' CLI not found."]
      [] outcome = "timeout"
            -> [diagnostics |-> <<>>, error |-> "dotnet build timed out."]
      [] OTHER -> [diagnostics |-> <<>>, error |-> None]

\* CSharpTools.run_devskim
RunDevskim(outcome) ==
    CASE outcome = "output"
            -> [issues |-> <<[rule_id |-> "DS126858", line_number |-> 1]>>, error |-> None]
      [] outcome = "garbage"
            -> [issues |-> <<>>, error |-> "Failed to parse DevSkim output: Expecting value"]
      [] outcome = "no_executable"
            -> [issues |-> <<>>, error |-> "'devskim' CLI not found."]
      [] OTHER -> [issues |-> <<>>, error |-> "DevSkim timed out."]

\* CSharpTools.run_complexity
RunComplexity(outcome) ==
    CASE outcome = "output"
            -> [blocks |-> <<Block(3)>>, average_complexity |-> PyFloat(30), error |-> None]
      [] OTHER
            -> [blocks |-> <<>>, average_complexity |-> PyFloat(0),
                error |-> "Cannot read file: Permission denied"]

\* the keys of run_all's dict, in the order of the calls
ToolKeys(lang) ==
    IF lang = "Python" THEN <<"pylint", "radon", "bandit", "mypy">>
    ELSE <<"dotnet_build", "devskim", "complexity">>

InitTools ==
    /\ mode = "run_tools"
    /\ profile \in {"Python", "C#"}
    /\ pc = ToolKeys(profile)[1]
    /\ file = Unset
    /\ ragEnabled = FALSE
    /\ tools = <<>>
    /\ queries = <<>>
    /\ ragChunks = <<>>
    /\ potentialIssues = <<>>
    /\ judgeResponse = <<>>
    /\ refinerResponse = <<>>
    /\ firstError = <<>>
    /\ verifiedData = Unset
    /\ parseError = FALSE
    /\ result = Unset
    /\ exception = None
    /\ log = <<>>
    /\ scoreIn = Unset
    /\ scoreOut = -1
    /\ lintFiltered = Unset
    /\ detectiveResponse = <<>>
    /\ retrieved = <<>>
    /\ ChatIdle
    /\ BatchIdle
    /\ CleanIdle

\* In each of the actions below one wrapper runs: the environment picks the
\* outcome, the wrapper's entry goes under its key, and run_all goes on to
\* the next wrapper or returns.

\* run_all calls run_pylint
PylintCall ==
    /\ mode = "run_tools"
    /\ pc = "pylint"
    /\ \E outcome \in ToolOutcomes("pylint") :
          /\ tools' = With(tools, "pylint", RunPylint(outcome))
          /\ log' = Append(log, Ev("pylint", outcome))
    /\ pc' = "radon"
    /\ UNCHANGED <<mode, chatVars, batchVars, cleanVars, detectiveResponse, retrieved, lintFiltered, file, ragEnabled, profile, queries, ragChunks,
                   potentialIssues, judgeResponse, refinerResponse, firstError,
                   verifiedData, parseError, result, exception, scoreIn, scoreOut>>

\* run_all calls run_radon
RadonCall ==
    /\ mode = "run_tools"
    /\ pc = "radon"
    /\ \E outcome \in ToolOutcomes("radon") :
          /\ tools' = With(tools, "radon", RunRadon(outcome))
          /\ log' = Append(log, Ev("radon", outcome))
    /\ pc' = "bandit"
    /\ UNCHANGED <<mode, chatVars, batchVars, cleanVars, detectiveResponse, retrieved, lintFiltered, file, ragEnabled, profile, queries, ragChunks,
                   potentialIssues, judgeResponse, refinerResponse, firstError,
                   verifiedData, parseError, result, exception, scoreIn, scoreOut>>

\* run_all calls run_bandit
BanditCall ==
    /\ mode = "run_tools"
    /\ pc = "bandit"
    /\ \E outcome \in ToolOutcomes("bandit") :
          /\ tools' = With(tools, "bandit", RunBandit(outcome))
          /\ log' = Append(log, Ev("bandit", outcome))
    /\ pc' = "mypy"
    /\ UNCHANGED <<mode, chatVars, batchVars, cleanVars, detectiveResponse, retrieved, lintFiltered, file, ragEnabled, profile, queries, ragChunks,
                   potentialIssues, judgeResponse, refinerResponse, firstError,
                   verifiedData, parseError, result, exception, scoreIn, scoreOut>>

\* run_all calls run_mypy and returns the dict
MypyCall ==
    /\ mode = "run_tools"
    /\ pc = "mypy"
    /\ \E outcome \in ToolOutcomes("mypy") :
          /\ tools' = With(tools, "mypy", RunMypy(outcome))
          /\ log' = Append(log, Ev("mypy", outcome))
    /\ pc' = "returned"
    /\ UNCHANGED <<mode, chatVars, batchVars, cleanVars, detectiveResponse, retrieved, lintFiltered, file, ragEnabled, profile, queries, ragChunks,
                   potentialIssues, judgeResponse, refinerResponse, firstError,
                   verifiedData, parseError, result, exception, scoreIn, scoreOut>>

\* run_all calls run_dotnet_build
DotnetBuildCall ==
    /\ mode = "run_tools"
    /\ pc = "dotnet_build"
    /\ \E outcome \in ToolOutcomes("dotnet_build") :
          /\ tools' = With(tools, "dotnet_build", RunDotnetBuild(outcome))
          /\ log' = Append(log, Ev("dotnet_build", outcome))
    /\ pc' = "devskim"
    /\ UNCHANGED <<mode, chatVars, batchVars, cleanVars, detectiveResponse, retrieved, lintFiltered, file, ragEnabled, profile, queries, ragChunks,
                   potentialIssues, judgeResponse, refinerResponse, firstError,
                   verifiedData, parseError, result, exception, scoreIn, scoreOut>>

\* run_all calls run_devskim
DevskimCall ==
    /\ mode = "run_tools"
    /\ pc = "devskim"
    /\ \E outcome \in ToolOutcomes("devskim") :
          /\ tools' = With(tools, "devskim", RunDevskim(outcome))
          /\ log' = Append(log, Ev("devskim", outcome))
    /\ pc' = "complexity"
    /\ UNCHANGED <<mode, chatVars, batchVars, cleanVars, detectiveResponse, retrieved, lintFiltered, file, ragEnabled, profile, queries, ragChunks,
                   potentialIssues, judgeResponse, refinerResponse, firstError,
                   verifiedData, parseError, result, exception, scoreIn, scoreOut>>

\* run_all calls run_complexity and returns the dict
ComplexityCall ==
    /\ mode = "run_tools"
    /\ pc = "complexity"
    /\ \E outcome \in ToolOutcomes("complexity") :
          /\ tools' = With(tools, "complexity", RunComplexity(outcome))
          /\ log' = Append(log, Ev("complexity", outcome))
    /\ pc' = "returned"
    /\ UNCHANGED <<mode, chatVars, batchVars, cleanVars, detectiveResponse, retrieved, lintFiltered, file, ragEnabled, profile, queries, ragChunks,
                   potentialIssues, judgeResponse, refinerResponse, firstError,
                   verifiedData, parseError, result, exception, scoreIn, scoreOut>>

NextTools ==
    \/ PylintCall
    \/ RadonCall
    \/ BanditCall
    \/ MypyCall
    \/ DotnetBuildCall
    \/ DevskimCall
    \/ ComplexityCall

SpecTools == InitTools /\ [][NextTools]_vars

-----------------------------------------------------------------------------
(* Evaluator._clean_json_response applied to a text and to its own result *)

\* bound: the number of tokens of a text
MaxTokens == 4

\* the texts, of the tokens backtick, the word json, blank and a JSON document
CleanTexts == UNION {[1..n -> {BT, JSONWORD, WS, "[]"}] : n \in 0..MaxTokens}

InitClean ==
    /\ mode = "clean"
    /\ pc = "raw"
    /\ cleanIn \in CleanTexts
    /\ cleanOnce = <<>>
    /\ cleanTwice = <<>>
    /\ exception = None
    /\ log = <<>>
    /\ EvaluateIdle
    /\ ChatIdle
    /\ BatchIdle

\* the text is cleaned
CleanFirst ==
    /\ mode = "clean"
    /\ pc = "raw"
    /\ cleanOnce' = CleanJsonResponse(cleanIn)
    /\ pc' = "cleaned"
    /\ UNCHANGED <<mode, chatVars, batchVars, cleanIn, cleanTwice, detectiveResponse,
                   retrieved, lintFiltered, file, ragEnabled, profile, tools, queries,
                   ragChunks, potentialIssues, judgeResponse, refinerResponse,
                   firstError, verifiedData, parseError, result, exception, log,
                   scoreIn, scoreOut>>

\* the cleaned text is cleaned again
CleanSecond ==
    /\ mode = "clean"
    /\ pc = "cleaned"
    /\ cleanTwice' = CleanJsonResponse(cleanOnce)
    /\ pc' = "cleaned_twice"
    /\ UNCHANGED <<mode, chatVars, batchVars, cleanIn, cleanOnce, detectiveResponse,
                   retrieved, lintFiltered, file, ragEnabled, profile, tools, queries,
                   ragChunks, potentialIssues, judgeResponse, refinerResponse,
                   firstError, verifiedData, parseError, result, exception, log,
                   scoreIn, scoreOut>>

NextClean ==
    \/ CleanFirst
    \/ CleanSecond

SpecClean == InitClean /\ [][NextClean]_vars

-----------------------------------------------------------------------------
(* LLMClient.chat: the retry loop *)

\* bound: the largest retry budget (LLM_MAX_RETRIES); 2 ** 4 reaches the cap
\* of the back-off
MaxRetries == 4

\* the cap of the back-off delay, in seconds
MAX_WAIT == 16

\* what one request can come to: a reply with content; a reply whose content
\* is empty or missing, or whose body is not JSON (ValueError); the three
\* requests exceptions the except clause names; a reply whose `choices` is
\* an empty list
PostOutcomes ==
    {"content", "empty_content", "ConnectionError", "Timeout", "HTTPError", "no_choices"}

\* the outcomes the except clause of chat catches
Retried == {"empty_content", "ConnectionError", "Timeout", "HTTPError"}

\* the content of a successful reply
ChatContent == <<"{vv:[Critical],sum}">>

\* 2 ** n
RECURSIVE Pow2(_)
Pow2(n) == IF n = 0 THEN 1 ELSE 2 * Pow2(n - 1)

\* wait = min(2 ** attempt, 16)
Wait(n) == Min(Pow2(n), MAX_WAIT)

InitChat ==
    /\ mode = "chat"
    /\ pc = "loop"
    /\ maxRetries \in 0..MaxRetries
    /\ attempt = 1
    /\ backoff = 0
    /\ chatReturn = <<>>
    /\ exception = None
    /\ log = <<>>
    /\ EvaluateIdle
    /\ BatchIdle
    /\ CleanIdle

\* one iteration of the for loop up to the return or the except clause: the
\* request is sent; a reply with content is returned, a caught failure sets
\* the delay, and the IndexError of choices[0] leaves chat
ChatPost ==
    /\ mode = "chat"
    /\ pc = "loop"
    /\ attempt <= maxRetries
    /\ \E outcome \in PostOutcomes :
          /\ log' = Append(log, Ev("post", outcome))
          /\ CASE outcome = "content" ->
                     /\ chatReturn' = ChatContent
                     /\ pc' = "returned"
                     /\ UNCHANGED <<backoff, exception>>
               [] outcome \in Retried ->
                     /\ backoff' = Wait(attempt)
                     /\ pc' = "sleep"
                     /\ UNCHANGED <<chatReturn, exception>>
               [] OTHER ->
                     /\ exception' = "IndexError"
                     /\ pc' = "raised"
                     /\ UNCHANGED <<chatReturn, backoff>>
    /\ UNCHANGED <<mode, batchVars, cleanVars, maxRetries, attempt, detectiveResponse,
                   retrieved, lintFiltered, file, ragEnabled, profile, tools, queries,
                   ragChunks, potentialIssues, judgeResponse, refinerResponse,
                   firstError, verifiedData, parseError, result, scoreIn, scoreOut>>

\* time.sleep(wait) returns and the loop takes the next attempt number
ChatSleep ==
    /\ mode = "chat"
    /\ pc = "sleep"
    /\ attempt' = attempt + 1
    /\ pc' = "loop"
    /\ UNCHANGED <<mode, batchVars, cleanVars, maxRetries, backoff, chatReturn,
                   detectiveResponse, retrieved, lintFiltered, file, ragEnabled, profile,
                   tools, queries, ragChunks, potentialIssues, judgeResponse,
                   refinerResponse, firstError, verifiedData, parseError, result,
                   exception, log, scoreIn, scoreOut>>

\* the range is used up: RuntimeError
ChatExhausted ==
    /\ mode = "chat"
    /\ pc = "loop"
    /\ attempt > maxRetries
    /\ exception' = "RuntimeError"
    /\ pc' = "raised"
    /\ UNCHANGED <<mode, batchVars, cleanVars, maxRetries, attempt, backoff, chatReturn,
                   detectiveResponse, retrieved, lintFiltered, file, ragEnabled, profile,
                   tools, queries, ragChunks, potentialIssues, judgeResponse,
                   refinerResponse, firstError, verifiedData, parseError, result, log,
                   scoreIn, scoreOut>>

NextChat ==
    \/ ChatPost
    \/ ChatSleep
    \/ ChatExhausted

SpecChat == InitChat /\ [][NextChat]_vars

-----------------------------------------------------------------------------
(* main: the batch run over a thread pool *)

\* bounds: the number of files of a batch, the size of the pool
MaxFiles == 3

MaxWorkers == 2

\* A path string is represented by its rank among the path strings of the
\* batch: _discover_files returns the paths without duplicates, sorted as
\* Path objects (part by part), which need not be the order of the strings
\* ("a/b.py" comes before "a-b/c.py" as a Path and after it as a string).
Path(i) == <<"src/", i>>

\* the orders in which n files can be submitted: the ranks of their strings
SubmitOrders(n) ==
    {p \in [1..n -> 1..n] : \A i, j \in 1..n : i # j => p[i] # p[j]}

\* what the calls of one evaluation come to, as far as the kind of its result
\* goes: a scored record, an error record after the Detective's chat gave
\* up, an exception from the retriever
Answers == {"scored", "llm_down", "retriever_raises"}

\* the data the Judge's answer parses to in a scored evaluation
BatchData ==
    [verified_violations |-> PyList(<<Violation(3, "Critical")>>),
     analysis_summary |-> <<"hardcoded password">>]

\* evaluate(path) given the answers to its calls: the record it returns or
\* the exception it raises
Evaluation(path, answer) ==
    CASE answer = "scored" ->
            [kind |-> "return",
             value |-> FinalResult(path, "Python", PyInt(85), BatchData, FALSE)]
      [] answer = "llm_down" ->
            [kind |-> "return",
             value |-> ErrorResult(path, <<"LLM error (Detective): ">> \o ChatErrorText)]
      [] OTHER ->
            [kind |-> "raise", value |-> [exc |-> <<"retriever failed">>]]

\* a submitted call of evaluate: `answer` is what the environment answered to
\* its calls (history), `local` the answer as held in the locals of the call
Submitted(path) ==
    [path |-> path, state |-> "queued", answer |-> "", local |-> "",
     outcome |-> [kind |-> "pending", value |-> Unset], collected |-> FALSE]

\* the futures a worker thread is running
Running == {f \in DOMAIN futures : futures[f].state \in {"running", "answered"}}

\* the futures that are done and not yet yielded by as_completed
Completed ==
    {f \in DOMAIN futures : futures[f].state \in {"returned", "raised"}
                               /\ ~futures[f].collected}

\* Deliver that keeps the answer in an attribute of the shared Evaluator
\* instance: every running call reads the last answer
Deliver_OnInstance(fs, f, answer) ==
    [g \in DOMAIN fs |->
        IF g = f THEN [fs[g] EXCEPT !.state = "answered", !.answer = answer,
                                   !.local = answer]
        ELSE IF fs[g].state = "answered" THEN [fs[g] EXCEPT !.local = answer]
        ELSE fs[g]]

\* the answers to the calls of evaluation f reach the locals of that call
Deliver(fs, f, answer) ==
    [fs EXCEPT ![f].state = "answered", ![f].answer = answer, ![f].local = answer]

\* the record main appends for a future: future.result(), or the record of
\* the except branch
Collected(f) ==
    IF futures[f].outcome.kind = "return"
    THEN futures[f].outcome.value
    ELSE [file |-> futures[f].path, language |-> "unknown", score |-> PyInt(0),
          summary |-> EmptyStr, violations |-> PyList(<<>>),
          error |-> futures[f].outcome.value.exc]

\* r.get("file", "") as a rank
FileKey(r) == r.file[2]

\* SortByFile that leaves the list in the order of collection
SortByFile_Unsorted(rs) == rs

\* list.sort(key=file): the records in ascending order of their file key
\* (the keys of a batch are distinct)
SortByFile(rs) ==
    CHOOSE s \in [1..Len(rs) -> {rs[i] : i \in 1..Len(rs)}] :
        /\ \A i \in 1..Len(rs) : \E j \in 1..Len(rs) : s[j] = rs[i]
        /\ \A i, j \in 1..Len(rs) : i < j => FileKey(s[i]) < FileKey(s[j])

InitBatch ==
    /\ mode = "batch"
    /\ pc = "collecting"
    /\ workers \in 1..MaxWorkers
    /\ \E n \in 1..MaxFiles : \E order \in SubmitOrders(n) :
          futures = [f \in 1..n |-> Submitted(Path(order[f]))]
    /\ results = <<>>
    /\ reported = <<>>
    /\ exception = None
    /\ log = <<>>
    /\ EvaluateIdle
    /\ ChatIdle
    /\ CleanIdle

\* a free worker thread takes the oldest queued call
WorkerStart ==
    /\ mode = "batch"
    /\ Cardinality(Running) < workers
    /\ \E f \in DOMAIN futures :
          /\ futures[f].state = "queued"
          /\ \A g \in 1..(f - 1) : futures[g].state # "queued"
          /\ futures' = [futures EXCEPT ![f].state = "running"]
    /\ UNCHANGED <<mode, pc, chatVars, cleanVars, workers, results, reported,
                   detectiveResponse, retrieved, lintFiltered, file, ragEnabled, profile,
                   tools, queries, ragChunks, potentialIssues, judgeResponse,
                   refinerResponse, firstError, verifiedData, parseError, result,
                   exception, log, scoreIn, scoreOut>>

\* the tools, the retriever and the model answer the calls of a running
\* evaluation
WorkerAnswered ==
    /\ mode = "batch"
    /\ \E f \in DOMAIN futures, answer \in Answers :
          /\ futures[f].state = "running"
          /\ futures' = Deliver(futures, f, answer)
    /\ UNCHANGED <<mode, pc, chatVars, cleanVars, workers, results, reported,
                   detectiveResponse, retrieved, lintFiltered, file, ragEnabled, profile,
                   tools, queries, ragChunks, potentialIssues, judgeResponse,
                   refinerResponse, firstError, verifiedData, parseError, result,
                   exception, log, scoreIn, scoreOut>>

\* a running evaluation returns its record or raises; its thread is free
WorkerDone ==
    /\ mode = "batch"
    /\ \E f \in DOMAIN futures :
          /\ futures[f].state = "answered"
          /\ LET out == Evaluation(futures[f].path, futures[f].local) IN
             futures' = [futures EXCEPT
                            ![f].outcome = out,
                            ![f].state = IF out.kind = "return" THEN "returned"
                                         ELSE "raised"]
    /\ UNCHANGED <<mode, pc, chatVars, cleanVars, workers, results, reported,
                   detectiveResponse, retrieved, lintFiltered, file, ragEnabled, profile,
                   tools, queries, ragChunks, potentialIssues, judgeResponse,
                   refinerResponse, firstError, verifiedData, parseError, result,
                   exception, log, scoreIn, scoreOut>>

\* Collect that appends nothing for a future that raised
Collect_DropsRaised ==
    /\ mode = "batch"
    /\ pc = "collecting"
    /\ \E f \in Completed :
          /\ results' = IF futures[f].outcome.kind = "return"
                        THEN Append(results, Collected(f)) ELSE results
          /\ futures' = [futures EXCEPT ![f].collected = TRUE]
          /\ log' = Append(log, Ev("collect", f))
          /\ pc' = IF \A g \in DOMAIN futures : g = f \/ futures[g].collected
                   THEN "drained" ELSE "collecting"
    /\ UNCHANGED <<mode, chatVars, cleanVars, workers, reported,
                   detectiveResponse, retrieved, lintFiltered, file, ragEnabled, profile,
                   tools, queries, ragChunks, potentialIssues, judgeResponse,
                   refinerResponse, firstError, verifiedData, parseError, result,
                   exception, scoreIn, scoreOut>>

\* one turn of the as_completed loop: a finished future is yielded and its
\* record appended (the log keeps the order); after the last one the pool is
\* left
Collect ==
    /\ mode = "batch"
    /\ pc = "collecting"
    /\ \E f \in Completed :
          /\ results' = Append(results, Collected(f))
          /\ futures' = [futures EXCEPT ![f].collected = TRUE]
          /\ log' = Append(log, Ev("collect", f))
          /\ pc' = IF \A g \in DOMAIN futures : g = f \/ futures[g].collected
                   THEN "drained" ELSE "collecting"
    /\ UNCHANGED <<mode, chatVars, cleanVars, workers, reported,
                   detectiveResponse, retrieved, lintFiltered, file, ragEnabled, profile,
                   tools, queries, ragChunks, potentialIssues, judgeResponse,
                   refinerResponse, firstError, verifiedData, parseError, result,
                   exception, scoreIn, scoreOut>>

\* results.sort(key=file), in place; the sorted list is what is printed
SortResults ==
    /\ mode = "batch"
    /\ pc = "drained"
    /\ results' = SortByFile(results)
    /\ reported' = SortByFile(results)
    /\ pc' = "reported"
    /\ UNCHANGED <<mode, chatVars, cleanVars, workers, futures,
                   detectiveResponse, retrieved, lintFiltered, file, ragEnabled, profile,
                   tools, queries, ragChunks, potentialIssues, judgeResponse,
                   refinerResponse, firstError, verifiedData, parseError, result,
                   exception, log, scoreIn, scoreOut>>

NextBatch ==
    \/ WorkerStart
    \/ WorkerAnswered
    \/ WorkerDone
    \/ Collect
    \/ SortResults

SpecBatch == InitBatch /\ [][NextBatch]_vars

-----------------------------------------------------------------------------
(* Properties of Evaluator.evaluate *)

\* the log holds the event (op, ev)
Has(op, ev) == \E i \in 1..Len(log) : log[i] = Ev(op, ev)

\* how many times the event (op, ev) is in the log
Count(op, ev) == Cardinality({i \in 1..Len(log) : log[i] = Ev(op, ev)})

ChatOps == {"Detective", "Judge", "Refiner"}

\* the first parse of the Judge's text, the parse of the Refiner's text
FirstParse == TryParseJudgeJson(CleanJsonResponse(judgeResponse))

SecondParse == TryParseJudgeJson(CleanJsonResponse(refinerResponse))

\* positions in which evaluate has a step left to take
RunningPcs ==
    {"start", "tools", "tools_wait", "rag", "retrieve", "retrieve_wait",
     "detective", "detective_wait", "judge", "judge_wait", "parse",
     "refiner", "refiner_wait", "score"}

\* C1: evaluate returns a result record and never lets an exception escape
\* to its caller, whatever the tools, the retriever and the model client do.
C1_NeverRaises == pc # "raised"

\* C2: when the Judge's cleaned text is not valid JSON, or is valid JSON
\* whose top-level value is not an object, the Refiner is called (the repair
\* protocol is triggered) instead of the failure being raised or dropped.
C2_RepairTriggered ==
    (Has("Judge", "return") /\ pc # "parse" /\ FirstParse.outcome # "ok")
        => (pc = "refiner" \/ Has("Refiner", "call"))

\* C3: the Refiner is called at most once, only after the first parse of the
\* Judge's text failed; after the Refiner's call has ended no model call
\* follows; one evaluation makes at most three model calls.
C3_RefinerAtMostOnce ==
    /\ Count("Refiner", "call") <= 1
    /\ Has("Refiner", "call") => (Has("Judge", "return") /\ FirstParse.outcome = "error")
    /\ Cardinality({i \in 1..Len(log) : log[i].op \in ChatOps /\ log[i].ev = "call"}) <= 3
    /\ \A i \in 1..Len(log) :
          (log[i].op = "Refiner" /\ log[i].ev # "call")
              => \A j \in (i + 1)..Len(log) : log[j].op \notin ChatOps

\* the Refiner answered with text that does not parse, and evaluate returned
C3_Witness ==
    /\ pc = "done"
    /\ Has("Refiner", "return")
    /\ SecondParse.outcome = "error"

\* C4: Judge text that is invalid JSON followed by Refiner text that parses:
\* the returned record has parse_error = false, the violations of the
\* repaired content, and the numeric calculate_score over them.
C4_RepairedResult ==
    (pc = "done" /\ Has("Refiner", "return")
        /\ FirstParse.outcome = "error" /\ SecondParse.outcome = "ok")
    => /\ "parse_error" \in DOMAIN result
       /\ result.parse_error = FALSE
       /\ result.violations = SecondParse.data.verified_violations
       /\ result.score = PyInt(CalculateScore(profile,
                                   SecondParse.data.verified_violations.items, tools))

\* a repaired response with violations in it was scored below 100
C4_Witness ==
    /\ pc = "done"
    /\ Has("Refiner", "return")
    /\ FirstParse.outcome = "error"
    /\ SecondParse.outcome = "ok"
    /\ Len(SecondParse.data.verified_violations.items) > 0
    /\ result.score # PyInt(100)

\* the Judge's text failed to parse and the repair failed too: the Refiner's
\* call raised RuntimeError, or its text does not parse either
RepairFailed ==
    /\ Has("Judge", "return")
    /\ pc # "parse"
    /\ FirstParse.outcome = "error"
    /\ \/ Has("Refiner", "RuntimeError")
       \/ Has("Refiner", "return") /\ SecondParse.outcome = "error"

\* C5: when the repair fails, evaluate returns score "N/A", no violations,
\* parse_error = true and a summary with the original parse error and, if
\* the Refiner answered, the Refiner's parse error; calculate_score is not
\* called.
C5_NotAvailable ==
    RepairFailed =>
        /\ pc \in {"score", "done"}
        /\ ~Has("score", "call")
        /\ pc = "done" =>
              /\ result.score = SCORE_NOT_AVAILABLE
              /\ result.violations = PyList(<<>>)
              /\ "parse_error" \in DOMAIN result
              /\ result.parse_error = TRUE
              /\ result.summary =
                    IF Has("Refiner", "return")
                    THEN <<"JSON parse error: ">> \o FirstParse.error
                         \o <<". Refiner failed: ">> \o SecondParse.error
                    ELSE <<"JSON parse error: ">> \o FirstParse.error
                         \o <<". Refiner call failed.">>

\* both texts failed to parse, with different parse errors, and evaluate returned
C5_Witness ==
    /\ pc = "done"
    /\ RepairFailed
    /\ Has("Refiner", "return")
    /\ FirstParse.error = <<"Expecting value">>
    /\ SecondParse.error = <<"Extra data">>

\* C6: a RuntimeError of the chat client at the Detective or the Judge step
\* ends the evaluation at once: that agent is called once, no later step
\* runs, and the error result (score 0, no violations) names the agent and
\* the reason.
C6_TransportTerminal ==
    \A agent \in {"Detective", "Judge"} :
        Has(agent, "RuntimeError") =>
            /\ pc = "done"
            /\ log[Len(log)] = Ev(agent, "RuntimeError")
            /\ Count(agent, "call") = 1
            /\ agent = "Detective" => ~Has("Judge", "call")
            /\ ~Has("Refiner", "call")
            /\ ~Has("score", "call")
            /\ result.score = PyInt(0)
            /\ result.violations = PyList(<<>>)
            /\ "error" \in DOMAIN result
            /\ result.error =
                  <<IF agent = "Detective" THEN "LLM error (Detective): "
                                           ELSE "LLM error (Judge): ">> \o ChatErrorText
            /\ result.summary = result.error

\* the Judge's call failed after the Detective had answered
C6_Witness ==
    /\ pc = "done"
    /\ Has("Detective", "return")
    /\ Has("Judge", "RuntimeError")

\* the precondition of evaluate that fails first, None if all hold
FirstFailedPrecondition ==
    IF file.kind = "missing" THEN "exists"
    ELSE IF DetectProfile(file.suffix) = None THEN "extension"
    ELSE IF Len(Strip(file.content)) = 0 THEN "content"
    ELSE None

\* C7: the preconditions are checked in the order exists, extension known,
\* content not blank; the first that fails gives an error result with score
\* 0, no violations, language "unknown" and its message, and no tool,
\* retriever or model call is made.
C7_Prechecks ==
    (pc # "start" /\ FirstFailedPrecondition # None) =>
        /\ pc = "done"
        /\ log = <<>>
        /\ result.score = PyInt(0)
        /\ result.violations = PyList(<<>>)
        /\ result.language = "unknown"
        /\ "error" \in DOMAIN result
        /\ result.error = result.summary
        /\ result.summary =
              CASE FirstFailedPrecondition = "exists" -> <<"File not found.">>
                [] FirstFailedPrecondition = "extension" ->
                      <<"Unsupported file type: '", file.suffix, "'.">>
                [] OTHER -> <<"File is empty.">>

\* an existing file fails two preconditions (unsupported extension and blank
\* content) and the earlier one is reported
C7_Witness ==
    /\ pc = "done"
    /\ file.kind = "file"
    /\ DetectProfile(file.suffix) = None
    /\ Len(file.content) > 0
    /\ Len(Strip(file.content)) = 0
    /\ result.summary[1] = "Unsupported file type: '"

\* C8: the steps of one evaluation run in strict order: a call in progress
\* ends before anything else starts; tools and (when enabled) every
\* retrieval have returned before the Detective is called, the Detective
\* before the Judge, the Judge before the Refiner and before scoring.
C8_StrictOrder ==
    /\ \A i \in 1..(Len(log) - 1) :
          log[i].ev = "call" => (log[i + 1].op = log[i].op /\ log[i + 1].ev # "call")
    /\ Has("Detective", "call") =>
          /\ Has("tools", "return")
          /\ ragEnabled => (Has("retrieve", "return") /\ Len(queries) = 0)
    /\ Has("Judge", "call") => Has("Detective", "return")
    /\ (Has("Refiner", "call") \/ Has("score", "call")) => Has("Judge", "return")
    /\ \A i, j \in 1..Len(log) :
          (i < j /\ log[j].op = "retrieve") => log[i].op \in {"tools", "retrieve"}

\* a full run: tools, retrieval, Detective, Judge, Refiner, score
C8_Witness ==
    /\ pc = "done"
    /\ Has("retrieve", "return")
    /\ Has("Refiner", "return")
    /\ Has("score", "return")

\* the four terminal states of the state machine of one evaluation
Scored ==
    pc = "done" /\ "parse_error" \in DOMAIN result /\ result.parse_error = FALSE

TerminalParseError ==
    pc = "done" /\ "parse_error" \in DOMAIN result /\ result.parse_error = TRUE

TerminalPrecheckError ==
    pc = "done" /\ "error" \in DOMAIN result /\ log = <<>>

TerminalTransportError ==
    pc = "done" /\ "error" \in DOMAIN result /\ log # <<>>

\* C9: an evaluation that has no step left is in exactly one of the terminal
\* states Scored, TerminalParseError, TerminalPrecheckError and
\* TerminalTransportError, each of which carries a result record.
C9_EndsInTerminalState ==
    pc \notin RunningPcs =>
        Cardinality({t \in {"Scored", "ParseError", "PrecheckError", "TransportError"} :
                        CASE t = "Scored" -> Scored
                          [] t = "ParseError" -> TerminalParseError
                          [] t = "PrecheckError" -> TerminalPrecheckError
                          [] OTHER -> TerminalTransportError}) = 1

-----------------------------------------------------------------------------
(* Properties of calculate_score *)

\* C10: for every list of verified violations and every tool report,
\* calculate_score of the Python and of the C# profile is an integer in
\* [0, 100].
C10_ScoreInRange ==
    (mode = "score" /\ pc = "scored") => scoreOut \in 0..100

\* penalties above 100 were clamped to 0
C10_Witness ==
    /\ mode = "score"
    /\ pc = "scored"
    /\ scoreOut = 0
    /\ SeverityPenalties(scoreIn.violations)
          + ComplexityPenalty(BlocksOf(scoreIn.lang, scoreIn.tools)) > 100

\* how many violations of the list have the (normalised) severity `tier`
CountSeverity(vs, tier) ==
    Cardinality({i \in 1..Len(vs) : NormSeverity(vs[i].severity) = tier})

\* the blocks of the report whose complexity is strictly above 15
BlocksAbove15(lang, report) ==
    {i \in 1..Len(BlocksOf(lang, report)) : BlocksOf(lang, report)[i].complexity > 15}

\* 5 if at least one block is above 15, 0 otherwise
OncePenalty(lang, report) == IF BlocksAbove15(lang, report) # {} THEN 5 ELSE 0

\* C11: calculate_score equals
\* max(0, min(100, 100 - 15*#Critical - 7*#Major - 2*#Minor - P)), where P is
\* 5 if at least one block has a complexity strictly above 15 and 0
\* otherwise: the complexity penalty is applied at most once, and a violation
\* whose severity is missing or none of the three tiers subtracts nothing.
C11_ClosedForm ==
    (mode = "score" /\ pc = "scored") =>
        scoreOut = Max(0, Min(100,
                       100 - 15 * CountSeverity(scoreIn.violations, "Critical")
                           - 7 * CountSeverity(scoreIn.violations, "Major")
                           - 2 * CountSeverity(scoreIn.violations, "Minor")
                           - OncePenalty(scoreIn.lang, scoreIn.tools)))

\* two blocks above the threshold, a missing severity and a severity outside
\* the tiers in the list, and a score that is not clamped
C11_Witness ==
    /\ mode = "score"
    /\ pc = "scored"
    /\ Cardinality(BlocksAbove15(scoreIn.lang, scoreIn.tools)) >= 2
    /\ \E i \in 1..Len(scoreIn.violations) : scoreIn.violations[i].severity = None
    /\ \E i \in 1..Len(scoreIn.violations) : scoreIn.violations[i].severity = "Info"
    /\ \E i \in 1..Len(scoreIn.violations) : scoreIn.violations[i].severity = "Critical"
    /\ scoreOut = 80

\* every violation of the list is Minor (the empty list included)
MinorOnly(vs) == \A i \in 1..Len(vs) : vs[i].severity = "Minor"

\* C12 as stated: for a list of Minor violations only and every tool report,
\* calculate_score is at least 100 - 2*count (clamped to [0, 100]), and it is
\* exactly 100 when the list is empty and no block is above the threshold.
C12_MinorFloor ==
    (mode = "score" /\ pc = "scored" /\ MinorOnly(scoreIn.violations)) =>
        /\ scoreOut >= Max(0, Min(100, 100 - 2 * Len(scoreIn.violations)))
        /\ (Len(scoreIn.violations) = 0 /\ BlocksAbove15(scoreIn.lang, scoreIn.tools) = {})
              => scoreOut = 100

\* C12, amended: for a list of Minor violations only and every tool report,
\* calculate_score is at least 100 - 2*count - P (clamped to [0, 100]), where
\* P is 5 when a block is above the complexity threshold and 0 otherwise, and
\* it is exactly 100 when the list is empty and no block is above the
\* threshold.
C12_MinorFloorLessPenalty ==
    (mode = "score" /\ pc = "scored" /\ MinorOnly(scoreIn.violations)) =>
        /\ scoreOut >= Max(0, Min(100, 100 - 2 * Len(scoreIn.violations)
                                           - OncePenalty(scoreIn.lang, scoreIn.tools)))
        /\ (Len(scoreIn.violations) = 0 /\ BlocksAbove15(scoreIn.lang, scoreIn.tools) = {})
              => scoreOut = 100

\* Minor violations and a block above the threshold: the score is below
\* 100 - 2*count
C12_Witness ==
    /\ mode = "score"
    /\ pc = "scored"
    /\ MinorOnly(scoreIn.violations)
    /\ Len(scoreIn.violations) >= 2
    /\ BlocksAbove15(scoreIn.lang, scoreIn.tools) # {}
    /\ scoreOut = 100 - 2 * Len(scoreIn.violations) - 5

\* C13: for a fixed tool report, appending one more violation, of any
\* severity, to a list never yields a higher score than the list had.
C13_MonotoneOnAppend ==
    [][(mode = "score" /\ pc = "scored") => scoreOut' <= scoreOut]_vars

\* a violation was appended and the score of the longer list is strictly
\* lower than the score of the list without it
C13_Witness ==
    /\ mode = "score"
    /\ pc = "scored"
    /\ Len(scoreIn.violations) >= 2
    /\ scoreOut < CalculateScore(scoreIn.lang,
                                 SubSeq(scoreIn.violations, 1, Len(scoreIn.violations) - 1),
                                 scoreIn.tools)

\* the list holds exactly n violations, all of them Critical
CriticalsOnly(vs, n) == Len(vs) = n /\ \A i \in 1..n : vs[i].severity = "Critical"

\* C15 as stated: calculate_score returns 0 for a list of four Critical
\* violations.
C15_FourCriticalsZero ==
    (mode = "score" /\ pc = "scored" /\ CriticalsOnly(scoreIn.violations, 4))
        => scoreOut = 0

\* C15, amended: seven Critical violations zero out a score; for a list of
\* four Critical violations calculate_score returns 40, less the complexity
\* penalty of 5 when a block is above the threshold.
C15_SevenCriticalsZero ==
    (mode = "score" /\ pc = "scored") =>
        /\ CriticalsOnly(scoreIn.violations, 7) => scoreOut = 0
        /\ CriticalsOnly(scoreIn.violations, 4)
              => scoreOut = 40 - OncePenalty(scoreIn.lang, scoreIn.tools)
        /\ (CriticalsOnly(scoreIn.violations, 6)
              /\ BlocksAbove15(scoreIn.lang, scoreIn.tools) = {}) => scoreOut > 0

\* seven Critical violations and no block above the threshold: the score is 0
C15_Witness ==
    /\ mode = "score"
    /\ pc = "scored"
    /\ CriticalsOnly(scoreIn.violations, 7)
    /\ BlocksAbove15(scoreIn.lang, scoreIn.tools) = {}
    /\ scoreOut = 0

-----------------------------------------------------------------------------
(* Properties of the scored result *)

\* C14: when the Judge's response parses at the first attempt, the returned
\* record has exactly the Judge's verified_violations, parse_error = false
\* and the score calculate_score gives for those violations and the raw tool
\* report; with exactly one Critical violation and no block above the
\* complexity threshold the score is 85 and violations has exactly one entry.
C14_FirstParseResult ==
    (pc = "done" /\ Has("Judge", "return") /\ FirstParse.outcome = "ok") =>
        /\ "parse_error" \in DOMAIN result
        /\ result.parse_error = FALSE
        /\ result.violations = FirstParse.data.verified_violations
        /\ result.score = PyInt(CalculateScore(profile,
                                    FirstParse.data.verified_violations.items, tools))
        /\ (FirstParse.data.verified_violations = PyList(<<Violation(3, "Critical")>>)
              /\ BlocksAbove15(profile, tools) = {})
           => /\ result.score = PyInt(85)
              /\ Len(result.violations.items) = 1

\* the Judge reported one Critical violation, the tools no block above the
\* threshold, and evaluate returned the score 85 with one violation
C14_Witness ==
    /\ pc = "done"
    /\ Has("Judge", "return")
    /\ FirstParse.outcome = "ok"
    /\ FirstParse.data.verified_violations = PyList(<<Violation(3, "Critical")>>)
    /\ BlocksAbove15(profile, tools) = {}
    /\ result.score = PyInt(85)
    /\ Len(result.violations.items) = 1

-----------------------------------------------------------------------------
(* Properties of filter_lint *)

\* the findings filter_lint reads from the report, and the ones it returns
FindingsIn == IF profile = "Python" THEN tools.pylint.messages ELSE tools.dotnet_build.diagnostics

FindingsOut == IF profile = "Python" THEN lintFiltered.messages ELSE lintFiltered.diagnostics

\* the finding is of the highest tier: type fatal or error for Pylint,
\* severity error for dotnet build
HighestTier(f) ==
    IF profile = "Python" THEN TypeBucket(f) \in {"fatal", "error"} ELSE f.severity = "error"

\* the finding is of a lower tier: a Pylint type that is not fatal, error or
\* warning; a build severity that is not error or warning
LowerTier(f) ==
    IF profile = "Python"
    THEN TypeBucket(f) \notin {"fatal", "error", "warning"}
    ELSE f.severity \notin {"error", "warning"}

\* the finding's identifier is on the profile's denylist
Denylisted(f) ==
    IF profile = "Python"
    THEN StripText(OrEmpty(f.message_id)) \in IGNORED_MESSAGE_IDS
    ELSE f.id \in IGNORED_IDS

IsIn(f, findings) == \E j \in 1..Len(findings) : findings[j] = f

\* C16: filter_lint never drops a finding of the highest tier: every finding
\* of the input of type fatal or error (Python) or of severity error (C#),
\* whatever its rule identifier, is in the filtered output.
C16_KeepsHighestTier ==
    (mode = "filter" /\ pc = "filtered") =>
        \A i \in 1..Len(FindingsIn) :
            HighestTier(FindingsIn[i]) => IsIn(FindingsIn[i], FindingsOut)

RECURSIVE IsSubList(_, _)
\* a is b with some elements left out: the elements of a are elements of b,
\* unchanged and in b's order
IsSubList(a, b) ==
    IF Len(a) = 0 THEN TRUE
    ELSE IF Len(b) = 0 THEN FALSE
    ELSE IF a[1] = b[1] THEN IsSubList(Tail(a), Tail(b))
    ELSE IsSubList(a, Tail(b))

\* C17: filter_lint never adds findings: the filtered list is a sub-list of
\* the input, each finding unchanged and in the input's relative order.
C17_NoInvention ==
    (mode = "filter" /\ pc = "filtered") => IsSubList(FindingsOut, FindingsIn)

\* the filter dropped the finding in the middle of three and kept the two
\* around it
C17_Witness ==
    /\ mode = "filter"
    /\ pc = "filtered"
    /\ Len(FindingsIn) = 3
    /\ FindingsOut = <<FindingsIn[1], FindingsIn[3]>>

\* the score of the report is a number below 5.0
ScoreBelow5 ==
    /\ profile = "Python"
    /\ "tenths" \in DOMAIN tools.pylint.score
    /\ tools.pylint.score.tenths < 50

\* C18: filter_lint keeps a finding of a lower tier (convention, refactor or
\* an unrecognised type) only when the tool's aggregate score is below 5.0:
\* with a score at or above 5.0 no such finding is in the output; with a
\* score below 5.0 every such finding whose identifier is not on the denylist
\* is in the output.
C18_LowerTierByScore ==
    (mode = "filter" /\ pc = "filtered") =>
        /\ ~ScoreBelow5 =>
              \A j \in 1..Len(FindingsOut) : ~LowerTier(FindingsOut[j])
        /\ ScoreBelow5 =>
              \A i \in 1..Len(FindingsIn) :
                  (LowerTier(FindingsIn[i]) /\ ~Denylisted(FindingsIn[i]))
                      => IsIn(FindingsIn[i], FindingsOut)

\* a convention finding was dropped at a score of exactly 5.0
C18_Witness ==
    /\ mode = "filter"
    /\ pc = "filtered"
    /\ profile = "Python"
    /\ tools.pylint.score = PyFloat(50)
    /\ \E i \in 1..Len(FindingsIn) :
          /\ TypeBucket(FindingsIn[i]) = "convention"
          /\ ~Denylisted(FindingsIn[i])
          /\ ~IsIn(FindingsIn[i], FindingsOut)
    /\ FindingsOut # <<>>

-----------------------------------------------------------------------------
(* Properties of derive_rag_queries *)

\* the rows of the profile's table whose keyword occurs in the source
MatchedRows ==
    {k \in 1..Len(ImportTopicMap(profile)) :
        KeywordInSource(ImportTopicMap(profile)[k][1], file.content)}

\* the topics of the profile's table
TableTopics == {ImportTopicMap(profile)[k][2] : k \in 1..Len(ImportTopicMap(profile))}

\* the first row of the table that matched for the topic
FirstMatch(topic) ==
    CHOOSE k \in MatchedRows :
        /\ ImportTopicMap(profile)[k][2] = topic
        /\ \A l \in MatchedRows : ImportTopicMap(profile)[l][2] = topic => k <= l

\* C19: derive_rag_queries returns a list without duplicates that contains
\* a topic of the table exactly when one of the topic's keywords occurs in
\* the source, the matched topics in the order of their first matching row
\* of the table, and "general code style" always, after the matched topics.
C19_RagQueries ==
    (mode = "rag" /\ pc = "derived") =>
        /\ \A i, j \in 1..Len(queries) : i # j => queries[i] # queries[j]
        /\ \A topic \in TableTopics :
              IsIn(topic, queries)
                  <=> \E k \in MatchedRows : ImportTopicMap(profile)[k][2] = topic
        /\ Len(queries) >= 1
        /\ queries[Len(queries)] = "general code style"
        /\ \A i \in 1..(Len(queries) - 1) : queries[i] \in TableTopics
        /\ \A i, j \in 1..(Len(queries) - 1) :
              i < j => FirstMatch(queries[i]) < FirstMatch(queries[j])

\* a source with two keywords of one topic and, before them in the text, a
\* keyword of a topic that comes later in the table
C19_Witness ==
    /\ mode = "rag"
    /\ pc = "derived"
    /\ file.content = <<"logging", "sqlite3", "sqlalchemy">>
    /\ queries = <<"database rules", "logging rules", "general code style">>

-----------------------------------------------------------------------------
(* Properties of run_tools *)

\* the tool under `key` timed out, is not installed, or printed output that
\* cannot be parsed
ToolFailed(key) ==
    \E ev \in {"timeout", "not_installed", "no_executable", "garbage"} : Has(key, ev)

\* C20: run_tools never raises and returns one entry per tool under its
\* fixed key; a tool that timed out, is not installed or printed unparsable
\* output has an error string that is not null in its entry, and the entries
\* of the other tools are unaffected.
C20_FaultIsolation ==
    /\ mode = "run_tools" => exception = None
    /\ (mode = "run_tools" /\ pc = "returned") =>
          /\ DOMAIN tools = {ToolKeys(profile)[i] : i \in 1..Len(ToolKeys(profile))}
          /\ \A key \in DOMAIN tools :
                /\ ToolFailed(key) => tools[key].error # None
                /\ Has(key, "output") => tools[key].error = None

-----------------------------------------------------------------------------
(* Properties of the returned record *)

\* the record is a normal one: an integer score in [0, 100], parse_error
\* false, no error field
NormalRecord(r) ==
    /\ "error" \notin DOMAIN r
    /\ "parse_error" \in DOMAIN r
    /\ r.parse_error = FALSE
    /\ "int" \in DOMAIN r.score
    /\ r.score.int \in 0..100

\* the record is a not-available one: score "N/A", parse_error true, no
\* violations, no error field
NotAvailableRecord(r) ==
    /\ "error" \notin DOMAIN r
    /\ "parse_error" \in DOMAIN r
    /\ r.parse_error = TRUE
    /\ r.score = SCORE_NOT_AVAILABLE
    /\ r.violations = PyList(<<>>)

\* the record is a hard error: an error field, score 0, no violations,
\* language "unknown"
HardErrorRecord(r) ==
    /\ "error" \in DOMAIN r
    /\ r.score = PyInt(0)
    /\ r.violations = PyList(<<>>)
    /\ r.language = "unknown"

\* C21: every record evaluate returns is exactly one of three outcomes:
\* normal, not-available or hard error; its score is "N/A" if and only if its
\* parse_error is true.
C21_ThreeOutcomes ==
    (mode = "eval" /\ pc = "done") =>
        /\ Cardinality({k \in {"normal", "na", "error"} :
                           CASE k = "normal" -> NormalRecord(result)
                             [] k = "na" -> NotAvailableRecord(result)
                             [] OTHER -> HardErrorRecord(result)}) = 1
        /\ (result.score = SCORE_NOT_AVAILABLE)
              <=> ("parse_error" \in DOMAIN result /\ result.parse_error = TRUE)

\* the three outcomes are all returned: here a hard error after the tools
\* ran (the Judge's call failed)
C21_Witness ==
    /\ mode = "eval"
    /\ pc = "done"
    /\ HardErrorRecord(result)
    /\ Has("Judge", "RuntimeError")

\* the fields every record of evaluate has
CommonFields ==
    {"file", "language", "score", "violations", "summary", "reliability_analysis",
     "maintainability_analysis"}

\* C22 as stated: every record evaluate returns, on success and on every
\* error path, carries the same set of fields, among them file, language,
\* score, violations, summary and parse_error.
C22_SameFields ==
    (mode = "eval" /\ pc = "done") => DOMAIN result = CommonFields \cup {"parse_error"}

\* C22, amended: every record evaluate returns carries file, language,
\* score, violations, summary, reliability_analysis and
\* maintainability_analysis; the records of the error paths carry error and
\* no parse_error, all other records carry parse_error and no error.
C22_SharedFields ==
    (mode = "eval" /\ pc = "done") =>
        DOMAIN result =
            CommonFields \cup (IF Has("Judge", "return") THEN {"parse_error"} ELSE {"error"})

\* an error path returned a record with the shared fields and no
\* parse_error
C22_Witness ==
    /\ mode = "eval"
    /\ pc = "done"
    /\ Has("Detective", "RuntimeError")
    /\ CommonFields \subseteq DOMAIN result
    /\ "parse_error" \notin DOMAIN result

-----------------------------------------------------------------------------
(* Properties of the Detective and Judge parsing *)

\* the Detective's cleaned response, as json.loads sees it
DetectiveParsed == JsonLoads(CleanJsonResponse(detectiveResponse))

\* the Detective's response is not valid JSON, or valid JSON that is no list
DetectiveNotAList ==
    \/ ~DetectiveParsed.ok
    \/ JsonType(DetectiveParsed.doc) # "list"

\* C26: once the Detective has answered with a text that is not valid JSON,
\* or with valid JSON that is not a list, the candidate-issue list is empty,
\* and the pipeline either stands right before the Judge's call with nothing
\* returned and nothing raised, or has already called the Judge.
C26_DetectiveDegradesSilently ==
    (mode = "eval" /\ Has("Detective", "return") /\ DetectiveNotAList) =>
        /\ potentialIssues = <<>>
        /\ \/ pc = "judge" /\ result = Unset /\ exception = None
           \/ Has("Judge", "call")

\* the Detective answered with a JSON document that is no list, and the
\* Judge was called afterwards
C26_Witness ==
    /\ Has("Detective", "return")
    /\ DetectiveParsed.ok
    /\ JsonType(DetectiveParsed.doc) # "list"
    /\ potentialIssues = <<>>
    /\ Has("Judge", "call")

\* the Judge's cleaned response, as json.loads sees it
JudgeParsed == JsonLoads(CleanJsonResponse(judgeResponse))

\* the Judge's response is a JSON object without the key
JudgeObjectWithout(key) ==
    /\ JudgeParsed.ok
    /\ JsonType(JudgeParsed.doc) = "object"
    /\ key \notin JsonKeys(JudgeParsed.doc)

\* the Judge's response has been parsed
JudgeResponseParsed == mode = "eval" /\ Has("Judge", "return") /\ pc # "parse"

\* C28: once a Judge response that is a JSON object without analysis_summary
\* or without verified_violations has been parsed, the parse has produced
\* data and set no parse error, nothing was raised, the Refiner is never
\* called, and the data holds the empty string for a missing
\* analysis_summary and the empty list for a missing verified_violations;
\* the returned record carries those values.
C28_MissingKeysDefaulted ==
    (JudgeResponseParsed
       /\ (JudgeObjectWithout("analysis_summary")
             \/ JudgeObjectWithout("verified_violations"))) =>
        /\ verifiedData # Unset
        /\ parseError = FALSE
        /\ exception = None
        /\ ~Has("Refiner", "call")
        /\ JudgeObjectWithout("analysis_summary") =>
              /\ verifiedData.analysis_summary = EmptyStr
              /\ pc = "done" => result.summary = EmptyStr
        /\ JudgeObjectWithout("verified_violations") =>
              /\ verifiedData.verified_violations = PyList(<<>>)
              /\ pc = "done" => result.violations = PyList(<<>>)

\* evaluate returned after a Judge response holding verified_violations and
\* no analysis_summary
C28_Witness ==
    /\ JudgeResponseParsed
    /\ pc = "done"
    /\ JudgeObjectWithout("analysis_summary")
    /\ ~JudgeObjectWithout("verified_violations")
    /\ result.summary = EmptyStr
    /\ Len(result.violations.items) = 1

-----------------------------------------------------------------------------
(* Properties of the guideline fetch *)

RECURSIVE Flatten(_)
\* the chunks of a sequence of answers, in the order they were returned
Flatten(answers) ==
    IF Len(answers) = 0 THEN <<>> ELSE Head(answers) \o Flatten(Tail(answers))

\* the position of the first occurrence of chunk c in the sequence s
FirstIndex(s, c) == CHOOSE i \in 1..Len(s) : s[i] = c /\ \A j \in 1..(i - 1) : s[j] # c

\* everything the retriever returned so far
AllRetrieved == Flatten(retrieved)

\* C29: the fetched list holds each chunk any answer of the retriever held,
\* exactly once, ordered by the chunks' first occurrence in the answers taken
\* in query order; once the fetch is over the retriever has been queried once
\* per derived query; with retrieval disabled the retriever is never queried
\* and the list is empty.
C29_DedupFirstSeen ==
    mode = "eval" =>
        /\ {ragChunks[i] : i \in 1..Len(ragChunks)}
              = {AllRetrieved[i] : i \in 1..Len(AllRetrieved)}
        /\ \A i, j \in 1..Len(ragChunks) :
              i < j => /\ ragChunks[i] # ragChunks[j]
                       /\ FirstIndex(AllRetrieved, ragChunks[i])
                             < FirstIndex(AllRetrieved, ragChunks[j])
        /\ (ragEnabled /\ Has("Detective", "call")) =>
              Len(retrieved) = Len(DeriveRagQueries(profile, file.content))
        /\ ~ragEnabled => ~Has("retrieve", "call") /\ ragChunks = <<>>

\* three queries were answered, the second answer repeating a chunk of the
\* first and one of its own, and the fetch returned the two chunks in the
\* order they were first seen
C29_Witness ==
    /\ mode = "eval"
    /\ Has("Detective", "call")
    /\ Len(retrieved) = 3
    /\ retrieved[1] = <<"c1">>
    /\ retrieved[2] = <<"c2", "c1", "c2">>
    /\ ragChunks = <<"c1", "c2">>

-----------------------------------------------------------------------------
(* Properties of the cleaning step *)

\* C27: for every text, cleaning the cleaned text again yields the cleaned
\* text: clean(clean(x)) = clean(x).
C27_CleanIdempotent ==
    (mode = "clean" /\ pc = "cleaned_twice") => cleanTwice = cleanOnce

-----------------------------------------------------------------------------
(* Properties of LLMClient.chat *)

\* the requests sent so far
Requests == {i \in 1..Len(log) : log[i].op = "post"}

\* C25: chat with the retry budget maxRetries never sends more than
\* maxRetries requests; when it returns, it returns the content of the last
\* request sent, which is the only one that came back with content; and when
\* it has stopped after requests that all failed (connection error, time-out,
\* error status, or a reply without content), it has sent maxRetries
\* requests and raised RuntimeError.
C25_RetryBudget ==
    mode = "chat" =>
        /\ Cardinality(Requests) <= maxRetries
        /\ pc = "returned" =>
              /\ log[Len(log)] = Ev("post", "content")
              /\ chatReturn = ChatContent
              /\ \A i \in 1..(Len(log) - 1) : log[i] # Ev("post", "content")
        /\ (pc \in {"returned", "raised"}
              /\ \A i \in 1..Len(log) : log[i] # Ev("post", "content")) =>
              /\ pc = "raised"
              /\ exception = "RuntimeError"
              /\ Cardinality(Requests) = maxRetries

-----------------------------------------------------------------------------
(* Properties of the batch run *)

\* the record the batch owes file f: the one its own evaluation, given the
\* answers to its own calls, returns, or the error record for what it raised
OwnRecord(f) ==
    LET out == Evaluation(futures[f].path, futures[f].answer) IN
    IF out.kind = "return" THEN out.value
    ELSE [file |-> futures[f].path, language |-> "unknown", score |-> PyInt(0),
          summary |-> EmptyStr, violations |-> PyList(<<>>), error |-> out.value.exc]

\* the pool has been left
Drained == mode = "batch" /\ pc \in {"drained", "reported"}

\* C23: once the pool has drained, whatever the number of workers and the
\* order of the steps, every evaluation has run to its end (none was
\* cancelled), and the results hold exactly one record per file, which is the
\* record of that file's own evaluation, also for evaluations that returned
\* an error record or raised.
C23_OneRecordPerFile ==
    Drained =>
        /\ Len(results) = Len(futures)
        /\ \A f \in DOMAIN futures :
              /\ futures[f].state \in {"returned", "raised"}
              /\ Cardinality({i \in 1..Len(results) : results[i].file = futures[f].path}) = 1
              /\ \E i \in 1..Len(results) : results[i] = OwnRecord(f)

\* three files on two workers: the first raised, the second came back with
\* an error record, the third was scored and collected first
C23_Witness ==
    /\ Drained
    /\ workers = 2
    /\ Len(futures) = 3
    /\ futures[1].state = "raised"
    /\ futures[2].answer = "llm_down"
    /\ futures[3].answer = "scored"
    /\ pc = "drained"
    /\ results[1] = OwnRecord(3)
    /\ "error" \in DOMAIN results[2]
    /\ "error" \in DOMAIN results[3]

\* C24: the reported records are in ascending order of file path, one per
\* file, and the sequence is the one fixed by the files and their own
\* outcomes, whatever the order in which the evaluations completed.
C24_SortedReport ==
    (mode = "batch" /\ pc = "reported") =>
        /\ Len(reported) = Len(futures)
        /\ \A i, j \in 1..Len(reported) :
              i < j => FileKey(reported[i]) < FileKey(reported[j])
        /\ \A f \in DOMAIN futures : reported[FileKey(OwnRecord(f))] = OwnRecord(f)
        /\ results = reported

\* of three files the one submitted last, whose path string is the second,
\* was collected first and is reported second
C24_Witness ==
    /\ mode = "batch"
    /\ pc = "reported"
    /\ Len(futures) = 3
    /\ futures[3].path = Path(2)
    /\ log[1] = Ev("collect", 3)
    /\ reported[1].file = Path(1)
    /\ reported[2] = OwnRecord(3)
    /\ reported[3].file = Path(3)

\* C30: what an evaluation returns or raises is the function of its own file
\* and of the answers to its own calls, whichever other evaluations ran at
\* the same time and whatever they were answered.
C30_OwnInputsOnly ==
    mode = "batch" =>
        \A f \in DOMAIN futures :
            futures[f].state \in {"returned", "raised"} =>
                futures[f].outcome = Evaluation(futures[f].path, futures[f].answer)

\* two evaluations were running at the same time and were answered
\* differently; the second has ended with its own outcome while the first,
\* started before it, is still running
C30_Witness ==
    /\ mode = "batch"
    /\ Len(futures) >= 2
    /\ futures[1].state = "answered"
    /\ futures[1].answer = "scored"
    /\ futures[2].state = "raised"
    /\ futures[2].outcome = Evaluation(futures[2].path, "retriever_raises")

====
